---------------------------- MODULE Spec2Model ----------------------------
(***************************************************************************)
(* Support-level detection and constrained optimisation engine of          *)
(* generate_Fbis_Levels_Interactive.py.                                    *)
(*                                                                         *)
(* Conventions of the model                                                *)
(*   - a price series is a sequence of bars [date, high, low, close]; the  *)
(*     three pandas Series the code passes around (close, high, low) share *)
(*     one DatetimeIndex, so they are carried as one sequence;             *)
(*   - a date is a day number; consecutive weekly bars are 7 days apart;   *)
(*   - prices are integers (price ticks);                                  *)
(*   - a shift is an integer number of thousandths (-50 is -0.05);         *)
(*   - the EMA is carried in fixed point, EmaScale units per price tick,   *)
(*     rounded down at every step (the code uses IEEE doubles);            *)
(*   - the regression line of create_downtrend_line is kept as its sums    *)
(*     and compared exactly (cross-multiplied), never divided;             *)
(*   - a Python None is the empty sequence, a present value v is <<v>>;    *)
(*     a Python dict is a function whose DOMAIN is its set of keys.        *)
(***************************************************************************)
EXTENDS Integers, Sequences, FiniteSets, TLC

VARIABLES
    df,             \* the price dataset: ticker -> [cols, bars]
    tickers,        \* the ticker list handed to optimize_all_etfs
    idx,            \* optimize_all_etfs: position of the loop in tickers (0 = not started)
    params,         \* optimize_all_etfs: the params dict built so far
    self,           \* the ConstrainedFbisOptimizer object (its fields), None when none is live
    det,            \* detect_trend_change: its local variables
    opt,            \* optimize: its local variables
    result,         \* the dict optimize returned, None before it returns
    pc,             \* position of the control flow
    params_file,    \* SATID_Fbis_Optimized_Parameters.json: None when absent, else its content
    outputs,        \* the other files written so far (HTML, Excel, CSV), by name
    pipe,           \* prices_update_only: the run of its scripts
    risk            \* the risk scoring of a portfolio: inputs, locals and results

batchVars == <<df, tickers, idx, params>>
downstreamVars == <<params_file, outputs, pipe, risk>>
vars == <<df, tickers, idx, params, self, det, opt, result, pc,
          params_file, outputs, pipe, risk>>

---------------------------------------------------------------------------
(* Bounds of the model *)

\* number of pseudo-random price paths enumerated per shape
MaxSeed == 8

---------------------------------------------------------------------------
(* Program constants *)

SUPPORT_TEST_REWARD == 1
BREACH_PENALTY == 3
\* TOUCH_TOLERANCE_PCT = 2.5, as the ratio 100 / 2.5: |low - level| * 40 <= level
ToleranceInv == 40
SwingWindow == 4
MinHighs == 2
WeeksToWait == 12
DaysPerWeek == 7
MinWindowBars == 10
MinSeriesBars == 52
DefaultPeriod == 20
DefaultShift == -50
InitialBestScore == -999999
ShiftScale == 1000
EmaScale == 100

None == << >>
Some(v) == << v >>

Range(f) == { f[x] : x \in DOMAIN f }

\* range(lo, hi, step) and np.arange(lo, hi, step) with n elements, as a sequence
Arange(lo, step, n) == [k \in 1..n |-> lo + (k - 1) * step]

ASSET_CLASSES ==
    [t \in {"SPY", "VGK", "EWG", "EWQ", "EWI", "EWJ"} |-> "large_cap"] @@
    [t \in {"QQQ", "XLK", "XLY"} |-> "growth_tech"] @@
    [t \in {"HYS", "EMB", "CEMB"} |-> "bond_hy"] @@
    [t \in {"BIL", "IGSB", "IGIB", "LQD"} |-> "bond_ig"] @@
    [t \in {"XLV", "XLI", "XLC", "SMH", "HEAL", "PPA", "PAVE"} |-> "sector"] @@
    [t \in {"EWZ", "INDA", "MCHI"} |-> "emerging"] @@
    [t \in {"ARKF", "AIQ", "EBIZ", "BKCH", "QTUM", "ARKX", "ESPO", "GLD",
            "FTLS", "QAI", "WTMF"} |-> "thematic"]

\* np.arange(start, stop, 0.005) holds ceil((stop - start) / 0.005) elements in
\* double arithmetic: 12 for growth_tech and 16 for emerging, whose quotient
\* rounds just above the integer, so that their last element is the stop value.
CONSTRAINTS ==
    [large_cap   |-> [ema_range |-> Arange(18, 2, 4), shift_range |-> Arange(-60, 5, 9)],
     growth_tech |-> [ema_range |-> Arange(18, 2, 4), shift_range |-> Arange(-70, 5, 12)],
     bond_hy     |-> [ema_range |-> Arange(16, 2, 3), shift_range |-> Arange(-30, 5, 7)],
     bond_ig     |-> [ema_range |-> Arange(16, 2, 3), shift_range |-> Arange(-20, 5, 5)],
     sector      |-> [ema_range |-> Arange(18, 2, 5), shift_range |-> Arange(-80, 5, 13)],
     emerging    |-> [ema_range |-> Arange(18, 2, 4), shift_range |-> Arange(-100, 5, 16)],
     thematic    |-> [ema_range |-> Arange(20, 2, 5), shift_range |-> Arange(-120, 5, 19)]]

\* ASSET_CLASSES.get(ticker, 'large_cap')
AssetClassOf(ticker) ==
    IF ticker \in DOMAIN ASSET_CLASSES THEN ASSET_CLASSES[ticker] ELSE "large_cap"

\* a plausible slip: the ranges of the default class for every instrument
ConstraintsOf_AlwaysLargeCap(asset_class) == CONSTRAINTS["large_cap"]

\* CONSTRAINTS.get(asset_class, CONSTRAINTS['large_cap'])
ConstraintsOf(asset_class) ==
    IF asset_class \in DOMAIN CONSTRAINTS THEN CONSTRAINTS[asset_class]
    ELSE CONSTRAINTS["large_cap"]

---------------------------------------------------------------------------
(* Series helpers *)

Indices(s) == [i \in 1..Len(s) |-> i]

MaxOf(S) == CHOOSE m \in S : \A x \in S : x <= m
MinOf(S) == CHOOSE m \in S : \A x \in S : m <= x

\* Series.idxmin(): the date of the first bar holding the minimum close
IdxMinClose(bars) ==
    LET m == MinOf({bars[i].close : i \in 1..Len(bars)})
        i == MinOf({j \in 1..Len(bars) : bars[j].close = m})
    IN  bars[i].date

---------------------------------------------------------------------------
(* Trend detection functions *)

\* a plausible slip: the slice without its + 1, a window that stops before
\* the last of its bars
LocalWindow_NoPlusOne(values, i, window) ==
    SubSeq(values, (i - window) + 1, i + window)

\* series.iloc[i-window:i+window+1], i the position counted from 0
LocalWindow(values, i, window) ==
    SubSeq(values, (i - window) + 1, i + window + 1)

Highs(bars) == [k \in 1..Len(bars) |-> bars[k].high]
Lows(bars) == [k \in 1..Len(bars) |-> bars[k].low]

\* the loop of find_swing_highs from position i: for i in range(window, len - window)
RECURSIVE SwingHighsFrom(_, _, _)
SwingHighsFrom(bars, window, i) ==
    IF i >= Len(bars) - window THEN << >>
    ELSE LET local_window == LocalWindow(Highs(bars), i, window)
             found == IF bars[i + 1].high = MaxOf(Range(local_window))
                      THEN <<[date |-> bars[i + 1].date, price |-> bars[i + 1].high]>>
                      ELSE << >>
         IN  found \o SwingHighsFrom(bars, window, i + 1)

find_swing_highs(bars, window) == SwingHighsFrom(bars, window, window)

\* the loop of find_swing_lows from position i
RECURSIVE SwingLowsFrom(_, _, _)
SwingLowsFrom(bars, window, i) ==
    IF i >= Len(bars) - window THEN << >>
    ELSE LET local_window == LocalWindow(Lows(bars), i, window)
             found == IF bars[i + 1].low = MinOf(Range(local_window))
                      THEN <<[date |-> bars[i + 1].date, price |-> bars[i + 1].low]>>
                      ELSE << >>
         IN  found \o SwingLowsFrom(bars, window, i + 1)

find_swing_lows(bars, window) == SwingLowsFrom(bars, window, window)

\* the inner loop of identify_lower_highs: the last index of the sequence that
\* starts at start_idx and is extended while the next high is strictly lower
RECURSIVE SequenceEnd(_, _)
SequenceEnd(swing_highs, j) ==
    IF j < Len(swing_highs) /\ swing_highs[j + 1].price < swing_highs[j].price
    THEN SequenceEnd(swing_highs, j + 1)
    ELSE j

\* a plausible slip: among the longest sequences, the last one
identify_lower_highs_LastLongest(swing_highs, min_highs) ==
    IF Len(swing_highs) < min_highs THEN << >>
    ELSE
        LET SeqLen(s) == SequenceEnd(swing_highs, s) - s + 1
            starts == {s \in 1..(Len(swing_highs) - 1) : SeqLen(s) >= min_highs}
        IN  IF starts = {} THEN << >>
            ELSE
                LET best_len == MaxOf({SeqLen(s) : s \in starts})
                    s0 == MaxOf({s \in starts : SeqLen(s) = best_len})
                IN  SubSeq(swing_highs, s0, s0 + best_len - 1)

identify_lower_highs(swing_highs, min_highs) ==
    IF Len(swing_highs) < min_highs THEN << >>
    ELSE
        LET SeqLen(s) == SequenceEnd(swing_highs, s) - s + 1
            starts == {s \in 1..(Len(swing_highs) - 1) : SeqLen(s) >= min_highs}
        IN  IF starts = {} THEN << >>
            ELSE
                \* max(sequences, key=len): the first of the longest
                LET best_len == MaxOf({SeqLen(s) : s \in starts})
                    s0 == MinOf({s \in starts : SeqLen(s) = best_len})
                IN  SubSeq(swing_highs, s0, s0 + best_len - 1)

\* the sum of the first k numbers of a sequence
RECURSIVE SumOver(_, _)
SumOver(s, k) == IF k = 0 THEN 0 ELSE s[k] + SumOver(s, k - 1)

\* stats.linregress over (days since the first anchor, price): the line is kept
\* as the sums that define slope = num / den and intercept = (sy - slope * sx) / n
create_downtrend_line(lower_highs) ==
    IF Len(lower_highs) < 2 THEN None
    ELSE
        LET first_date == lower_highs[1].date
            n   == Len(lower_highs)
            dates_numeric == [k \in 1..n |-> lower_highs[k].date - first_date]
            prices == [k \in 1..n |-> lower_highs[k].price]
            sx  == SumOver(dates_numeric, n)
            sy  == SumOver(prices, n)
            sxx == SumOver([k \in 1..n |-> dates_numeric[k] * dates_numeric[k]], n)
            sxy == SumOver([k \in 1..n |-> dates_numeric[k] * prices[k]], n)
        IN  Some([n |-> n, sx |-> sx, sy |-> sy,
                  num |-> n * sxy - sx * sy, den |-> n * sxx - sx * sx,
                  first_date |-> first_date])

\* price > resistance_at_date(date), with
\* resistance_at_date(date) = slope * (date - first_date).days + intercept;
\* both sides multiplied by n * den (den > 0: the anchors' dates differ)
AboveLine(price, line, date) ==
    price * line.n * line.den >
        line.num * (date - line.first_date) * line.n
        + line.sy * line.den - line.num * line.sx

\* the loop of detect_breakout over check_data, from the bar at position i
RECURSIVE BreakoutFrom(_, _, _, _)
BreakoutFrom(bars, line, start_after_date, i) ==
    IF i > Len(bars) THEN None
    ELSE IF /\ bars[i].date > start_after_date
            /\ AboveLine(bars[i].close, line, bars[i].date)
         THEN Some([date |-> bars[i].date, price |-> bars[i].close])
         ELSE BreakoutFrom(bars, line, start_after_date, i + 1)

\* a plausible slip: the bar of the last anchor itself is scanned too
detect_breakout_FromAnchor(bars, downtrend_line, start_after_date) ==
    IF downtrend_line = None THEN None
    ELSE BreakoutFrom(bars, downtrend_line[1], start_after_date - 1, 1)

detect_breakout(bars, downtrend_line, start_after_date) ==
    IF downtrend_line = None THEN None
    ELSE BreakoutFrom(bars, downtrend_line[1], start_after_date, 1)

\* a plausible slip: the bar of the breakout counted in the confirmation window
confirm_higher_low_FromBreakoutBar(bars, breakout_info, pre_breakout_low, weeks_to_wait) ==
    IF breakout_info = None THEN None
    ELSE
        LET breakout_date == breakout_info[1].date
            confirmation_window ==
                {i \in 1..Len(bars) :
                    /\ bars[i].date >= breakout_date
                    /\ bars[i].date <= breakout_date + weeks_to_wait * DaysPerWeek}
        IN  IF confirmation_window = {} THEN None
            ELSE
                LET pullback_low_price == MinOf({bars[i].low : i \in confirmation_window})
                    at == MinOf({i \in confirmation_window :
                                    bars[i].low = pullback_low_price})
                IN  IF pullback_low_price > pre_breakout_low.price
                    THEN Some([date |-> bars[at].date, confirmed |-> TRUE])
                    ELSE None

\* lines 182-199
confirm_higher_low(bars, breakout_info, pre_breakout_low, weeks_to_wait) ==
    IF breakout_info = None THEN None
    ELSE
        LET breakout_date == breakout_info[1].date
            confirmation_window ==
                {i \in 1..Len(bars) :
                    /\ bars[i].date > breakout_date
                    /\ bars[i].date <= breakout_date + weeks_to_wait * DaysPerWeek}
        IN  IF confirmation_window = {} THEN None
            ELSE
                LET pullback_low_price == MinOf({bars[i].low : i \in confirmation_window})
                    at == MinOf({i \in confirmation_window :
                                    bars[i].low = pullback_low_price})
                IN  IF pullback_low_price > pre_breakout_low.price
                    THEN Some([date |-> bars[at].date, confirmed |-> TRUE])
                    ELSE None

---------------------------------------------------------------------------
(* The price dataset: what load_etf_prices reads from the CSV file.        *)
(* A price path is a multiplicative walk from BasePrice: every week the    *)
(* close moves by drift + noise percent, the noise and the two wicks being *)
(* drawn from a linear congruential sequence started at the seed.          *)

BasePrice == 100
NoiseSpan == 7

Lcg(x) == (75 * x + 74) % 65537

RECURSIVE GenBars(_, _, _, _, _, _)
GenBars(x, drift, prev_close, week, n, acc) ==
    IF n = 0 THEN acc
    ELSE
        LET noise == (x % NoiseSpan) - (NoiseSpan \div 2)
            up    == (x \div NoiseSpan) % 3
            down  == (x \div (3 * NoiseSpan)) % 4
            close == (prev_close * (100 + drift + noise)) \div 100
            hi    == (IF close > prev_close THEN close ELSE prev_close) + up
            lo    == (IF close < prev_close THEN close ELSE prev_close) - down
        IN  GenBars(Lcg(x), drift, close, week + 1, n - 1,
                    Append(acc, [date |-> week * DaysPerWeek, high |-> hi,
                                 low |-> lo, close |-> close]))

\* a series of n weekly bars whose first bar is dated first_week
PricePath(seed, drift, first_week, n) ==
    GenBars(Lcg(seed), drift, BasePrice, first_week, n, << >>)

---------------------------------------------------------------------------
(* detect_trend_change, one action per stage of its fallback chain.        *)
(* det holds its locals; it returns by setting self.trend_start and        *)
(* self.detection_info (ConstrainedFbisOptimizer.__init__).                *)

NoDet == [swing_highs |-> << >>, lower_highs |-> << >>, breakout |-> None,
          swing_lows |-> << >>, pre_breakout_lows |-> << >>, confirmation |-> None]

EmptyInfo == [k \in {} |-> None]

\* return (trend_start, detection_info) into the object under construction
Constructed(trend_start, detection_info) ==
    /\ self' = Some([self[1] EXCEPT !.trend_start = Some(trend_start),
                                    !.detection_info = detection_info])
    /\ pc' = "constructed"

\* ConstrainedFbisOptimizer.__init__ up to the call of detect_trend_change
NewOptimizer(ticker, bars) ==
    [ticker |-> ticker, bars |-> bars,
     asset_class |-> AssetClassOf(ticker),
     constraints |-> ConstraintsOf(AssetClassOf(ticker)),
     trend_start |-> None, detection_info |-> EmptyInfo]

DetectSwingHighs ==
    /\ pc = "detect"
    /\ LET swing_highs == find_swing_highs(self[1].bars, SwingWindow)
       IN  /\ det' = [NoDet EXCEPT !.swing_highs = swing_highs]
           /\ IF Len(swing_highs) < 2
              THEN Constructed(IdxMinClose(self[1].bars), EmptyInfo)
              ELSE pc' = "lower_highs" /\ UNCHANGED self
    /\ UNCHANGED <<downstreamVars, batchVars, opt, result>>

IdentifyLowerHighs ==
    /\ pc = "lower_highs"
    /\ LET lower_highs == identify_lower_highs(det.swing_highs, MinHighs)
       IN  /\ det' = [det EXCEPT !.lower_highs = lower_highs]
           /\ IF Len(lower_highs) < 2
              THEN Constructed(IdxMinClose(self[1].bars), EmptyInfo)
              ELSE pc' = "breakout" /\ UNCHANGED self
    /\ UNCHANGED <<downstreamVars, batchVars, opt, result>>

\* a plausible slip: without a breakout, fall back to the last anchor of the line
DetectBreakout_LastAnchor ==
    /\ pc = "breakout"
    /\ LET lower_highs == det.lower_highs
           downtrend_line == create_downtrend_line(lower_highs)
           breakout == detect_breakout(self[1].bars, downtrend_line,
                                       lower_highs[Len(lower_highs)].date)
       IN  /\ det' = [det EXCEPT !.breakout = breakout]
           /\ IF downtrend_line = None \/ breakout = None
              THEN Constructed(lower_highs[Len(lower_highs)].date, EmptyInfo)
              ELSE pc' = "swing_lows" /\ UNCHANGED self
    /\ UNCHANGED <<downstreamVars, batchVars, opt, result>>

\* create_downtrend_line and detect_breakout (lines 215-221)
DetectBreakout ==
    /\ pc = "breakout"
    /\ LET lower_highs == det.lower_highs
           downtrend_line == create_downtrend_line(lower_highs)
           breakout == detect_breakout(self[1].bars, downtrend_line,
                                       lower_highs[Len(lower_highs)].date)
       IN  /\ det' = [det EXCEPT !.breakout = breakout]
           /\ IF downtrend_line = None \/ breakout = None
              THEN Constructed(IdxMinClose(self[1].bars), EmptyInfo)
              ELSE pc' = "swing_lows" /\ UNCHANGED self
    /\ UNCHANGED <<downstreamVars, batchVars, opt, result>>

\* find_swing_lows and the pre-breakout lows (lines 223-227)
FindPreBreakoutLows ==
    /\ pc = "swing_lows"
    /\ LET breakout == det.breakout[1]
           swing_lows == find_swing_lows(self[1].bars, SwingWindow)
           IsBefore(l) == l.date < breakout.date
           pre_breakout_lows == SelectSeq(swing_lows, IsBefore)
       IN  /\ det' = [det EXCEPT !.swing_lows = swing_lows,
                                  !.pre_breakout_lows = pre_breakout_lows]
           /\ IF pre_breakout_lows = << >>
              THEN Constructed(breakout.date, [k \in {"breakout"} |-> breakout])
              ELSE pc' = "confirm" /\ UNCHANGED self
    /\ UNCHANGED <<downstreamVars, batchVars, opt, result>>

\* a plausible slip: the confirmation is recorded but the breakout date is returned
ConfirmHigherLow_BreakoutDate ==
    /\ pc = "confirm"
    /\ LET breakout == det.breakout[1]
           lows == det.pre_breakout_lows
           confirmation == confirm_higher_low(self[1].bars, det.breakout,
                                              lows[Len(lows)], WeeksToWait)
       IN  /\ det' = [det EXCEPT !.confirmation = confirmation]
           /\ IF confirmation # None /\ confirmation[1].confirmed
              THEN Constructed(breakout.date,
                               [k \in {"breakout", "confirmation"} |->
                                   IF k = "breakout" THEN breakout ELSE confirmation[1]])
              ELSE Constructed(breakout.date, [k \in {"breakout"} |-> breakout])
    /\ UNCHANGED <<downstreamVars, batchVars, opt, result>>

\* confirm_higher_low and the final return (lines 229-233)
ConfirmHigherLow ==
    /\ pc = "confirm"
    /\ LET breakout == det.breakout[1]
           lows == det.pre_breakout_lows
           confirmation == confirm_higher_low(self[1].bars, det.breakout,
                                              lows[Len(lows)], WeeksToWait)
       IN  /\ det' = [det EXCEPT !.confirmation = confirmation]
           /\ IF confirmation # None /\ confirmation[1].confirmed
              THEN Constructed(confirmation[1].date,
                               [k \in {"breakout", "confirmation"} |->
                                   IF k = "breakout" THEN breakout ELSE confirmation[1]])
              ELSE Constructed(breakout.date, [k \in {"breakout"} |-> breakout])
    /\ UNCHANGED <<downstreamVars, batchVars, opt, result>>

DetectTrendChange ==
    \/ DetectSwingHighs
    \/ IdentifyLowerHighs
    \/ DetectBreakout
    \/ FindPreBreakoutLows
    \/ ConfirmHigherLow

---------------------------------------------------------------------------
(* ConstrainedFbisOptimizer.optimize *)

\* close.ewm(span=period, adjust=False).mean() over the entire series:
\* y[1] = x[1], y[t] = (1 - a) * y[t-1] + a * x[t] with a = 2 / (period + 1)
RECURSIVE EmaUpTo(_, _, _)
EmaUpTo(bars, period, t) ==
    IF t = 1 THEN << bars[1].close * EmaScale >>
    ELSE LET prev == EmaUpTo(bars, period, t - 1)
         IN  Append(prev, ((period - 1) * prev[t - 1]
                           + 2 * bars[t].close * EmaScale) \div (period + 1))

_calculate_ema(bars, period) == EmaUpTo(bars, period, Len(bars))

\* a plausible slip: > instead of >=, the bar of the trend start is left out
OptMask_Strict(bars, trend_start) ==
    LET InWindow(i) == bars[i].date > trend_start
    IN  SelectSeq(Indices(bars), InWindow)

\* opt_mask = close.index >= trend_start, as the indices it selects
OptMask(bars, trend_start) ==
    LET InWindow(i) == bars[i].date >= trend_start
    IN  SelectSeq(Indices(bars), InWindow)

\* fbis_line = ema * (1 + shift), in units of 1 / (EmaScale * ShiftScale) tick
FbisLevel(ema_value, shift) == ema_value * (ShiftScale + shift)

PriceUnits(price) == price * EmaScale * ShiftScale

\* -TOUCH_TOLERANCE_PCT <= (low - level) / level * 100 <= TOUCH_TOLERANCE_PCT
WithinTolerance(low_price, fbis_level) ==
    /\ - fbis_level <= ToleranceInv * (PriceUnits(low_price) - fbis_level)
    /\ ToleranceInv * (PriceUnits(low_price) - fbis_level) <= fbis_level

\* lines 301-303: the if branch and its nested if
IsSupportTest(low_price, close_price, fbis_level) ==
    /\ WithinTolerance(low_price, fbis_level)
    /\ PriceUnits(close_price) >= fbis_level

\* a plausible slip: a breach judged on the low, outside of the if / elif chain
IsBreach_OnLow(low_price, close_price, fbis_level) ==
    PriceUnits(low_price) < fbis_level

\* lines 304-306: the elif branch, taken only when the if condition is false
IsBreach(low_price, close_price, fbis_level) ==
    /\ ~ WithinTolerance(low_price, fbis_level)
    /\ PriceUnits(close_price) < fbis_level

\* a plausible slip: reward and penalty exchanged
Score_Exchanged(support_tests, breaches) ==
    support_tests * BREACH_PENALTY - breaches * SUPPORT_TEST_REWARD

\* score = support_tests * SUPPORT_TEST_REWARD - breaches * BREACH_PENALTY
Score(support_tests, breaches) ==
    support_tests * SUPPORT_TEST_REWARD - breaches * BREACH_PENALTY

\* a plausible slip: >= instead of >, the last of the tied candidates wins
Improves_OrEqual(score, best_score) == score >= best_score

\* a plausible slip: the comparison reversed, the lowest score wins
Improves_Reversed(score, best_score) == best_score = InitialBestScore \/ score < best_score

\* if score > best_score
Improves(score, best_score) == score > best_score

\* if len(opt_close) < 10
TooFewBars(n) == n < MinWindowBars

\* a plausible slip: the two-field default of the caller returned in its place
DefaultResult_TwoFields(trend_start) ==
    [period |-> DefaultPeriod, shift |-> DefaultShift]

\* lines 273-276 and 324-327: the fixed default
DefaultResult(trend_start) ==
    [period |-> DefaultPeriod, shift |-> DefaultShift, tests |-> 0, breaches |-> 0,
     score |-> 0, trend_start |-> trend_start]

NoOpt == [opt_idx |-> << >>, p |-> 0, s |-> 0, i |-> 0, ema |-> << >>,
          support_tests |-> 0, breaches |-> 0, score |-> None, best |-> None,
          best_score |-> InitialBestScore, evaluated |-> 0]

\* lines 267-279: the window, its size check, the search's initial state
OptimizeStart ==
    /\ pc = "constructed"
    /\ LET trend_start == self[1].trend_start[1]
           opt_idx == OptMask(self[1].bars, trend_start)
       IN  IF TooFewBars(Len(opt_idx))
           THEN /\ result' = Some(DefaultResult(trend_start))
                /\ opt' = [NoOpt EXCEPT !.opt_idx = opt_idx]
                /\ pc' = "returned"
           ELSE /\ opt' = [NoOpt EXCEPT !.opt_idx = opt_idx, !.p = 1]
                /\ pc' = "period"
                /\ UNCHANGED result
    /\ UNCHANGED <<downstreamVars, batchVars, self, det>>

\* for period in ema_range: the EMA of the whole series; after the last period,
\* return best or the default
PeriodLoop ==
    /\ pc = "period"
    /\ LET ema_range == self[1].constraints.ema_range
       IN  IF opt.p > Len(ema_range)
           THEN /\ result' = IF opt.best # None THEN opt.best
                             ELSE Some(DefaultResult(self[1].trend_start[1]))
                /\ pc' = "returned"
                /\ UNCHANGED opt
           ELSE /\ opt' = [opt EXCEPT
                              !.ema = _calculate_ema(self[1].bars, ema_range[opt.p]),
                              !.s = 1]
                /\ pc' = "shift"
                /\ UNCHANGED result
    /\ UNCHANGED <<downstreamVars, batchVars, self, det>>

\* for shift in shift_range: the counters start at 0
ShiftLoop ==
    /\ pc = "shift"
    /\ IF opt.s > Len(self[1].constraints.shift_range)
       THEN /\ opt' = [opt EXCEPT !.p = opt.p + 1]
            /\ pc' = "period"
       ELSE /\ opt' = [opt EXCEPT !.support_tests = 0, !.breaches = 0, !.i = 1]
            /\ pc' = "bar"
    /\ UNCHANGED <<downstreamVars, batchVars, self, det, result>>

\* the support level of the candidate under evaluation at the i-th bar of the window
CurrentLevel(i) ==
    FbisLevel(opt.ema[opt.opt_idx[i]], self[1].constraints.shift_range[opt.s])

\* for i in range(len(opt_close)): one bar of the window
EvalBar ==
    /\ pc = "bar"
    /\ opt.i <= Len(opt.opt_idx)
    /\ LET bar == self[1].bars[opt.opt_idx[opt.i]]
           fbis_level == CurrentLevel(opt.i)
       IN  opt' = [opt EXCEPT
                      !.support_tests =
                          IF IsSupportTest(bar.low, bar.close, fbis_level) THEN @ + 1 ELSE @,
                      !.breaches =
                          IF IsBreach(bar.low, bar.close, fbis_level) THEN @ + 1 ELSE @,
                      !.i = @ + 1]
    /\ UNCHANGED <<downstreamVars, batchVars, self, det, result, pc>>

\* lines 308-322: the candidate's score, and the best so far
ScoreCandidate ==
    /\ pc = "bar"
    /\ opt.i > Len(opt.opt_idx)
    /\ LET score == Score(opt.support_tests, opt.breaches)
           better == Improves(score, opt.best_score)
       IN  opt' = [opt EXCEPT
                      !.score = Some(score),
                      !.best_score = IF better THEN score ELSE @,
                      !.best = IF better
                               THEN Some([period |-> self[1].constraints.ema_range[opt.p],
                                          shift |-> self[1].constraints.shift_range[opt.s],
                                          tests |-> opt.support_tests,
                                          breaches |-> opt.breaches,
                                          score |-> score,
                                          trend_start |-> self[1].trend_start[1],
                                          asset_class |-> self[1].asset_class])
                               ELSE @,
                      !.evaluated = @ + 1,
                      !.s = @ + 1]
    /\ pc' = "shift"
    /\ UNCHANGED <<downstreamVars, batchVars, self, det, result>>

Optimize ==
    \/ OptimizeStart
    \/ PeriodLoop
    \/ ShiftLoop
    \/ EvalBar
    \/ ScoreCandidate

---------------------------------------------------------------------------
(* optimize_all_etfs *)

DefaultParams == [period |-> DefaultPeriod, shift |-> DefaultShift]

\* params[ticker] = value
SetItem(dict, key, value) ==
    [k \in DOMAIN dict \cup {key} |-> IF k = key THEN value ELSE dict[k]]

\* close_col not in df.columns or high_col not in df.columns or low_col not in df.columns
ColumnsMissing(ticker) ==
    \/ "close" \notin df[ticker].cols
    \/ "high" \notin df[ticker].cols
    \/ "low" \notin df[ticker].cols

\* a plausible slip: <= instead of <, a history of exactly 52 bars is refused
HistoryTooShort_OrEqual(n) == n <= MinSeriesBars

\* if len(close_series) < 52
HistoryTooShort(n) == n < MinSeriesBars

\* a plausible slip: break instead of continue, the batch ends at the first missing column
MissingColumns_Break ==
    /\ pc = "batch"
    /\ idx < Len(tickers)
    /\ ColumnsMissing(tickers[idx + 1])
    /\ params' = SetItem(params, tickers[idx + 1], DefaultParams)
    /\ idx' = idx + 1
    /\ pc' = "done"
    /\ UNCHANGED <<downstreamVars, df, tickers, self, det, opt, result>>

\* lines 371-374: a missing column, the default and continue
MissingColumns ==
    /\ pc = "batch"
    /\ idx < Len(tickers)
    /\ ColumnsMissing(tickers[idx + 1])
    /\ params' = SetItem(params, tickers[idx + 1], DefaultParams)
    /\ idx' = idx + 1
    /\ UNCHANGED <<downstreamVars, df, tickers, self, det, opt, result, pc>>

\* lines 376-383: less than one year of data, the default and continue
ShortHistory ==
    /\ pc = "batch"
    /\ idx < Len(tickers)
    /\ ~ ColumnsMissing(tickers[idx + 1])
    /\ HistoryTooShort(Len(df[tickers[idx + 1]].bars))
    /\ params' = SetItem(params, tickers[idx + 1], DefaultParams)
    /\ idx' = idx + 1
    /\ UNCHANGED <<downstreamVars, df, tickers, self, det, opt, result, pc>>

\* a plausible slip: the series of the first instrument of the list, left over
\* from an earlier iteration, handed to the optimizer of every instrument
Construct_StaleSeries ==
    /\ pc = "batch"
    /\ idx < Len(tickers)
    /\ ~ ColumnsMissing(tickers[idx + 1])
    /\ ~ HistoryTooShort(Len(df[tickers[idx + 1]].bars))
    /\ self' = Some(NewOptimizer(tickers[idx + 1], df[tickers[1]].bars))
    /\ det' = NoDet
    /\ opt' = NoOpt
    /\ result' = None
    /\ pc' = "detect"
    /\ UNCHANGED <<downstreamVars, batchVars>>

\* line 386: ConstrainedFbisOptimizer(ticker, close_series, high_series, low_series)
Construct ==
    /\ pc = "batch"
    /\ idx < Len(tickers)
    /\ ~ ColumnsMissing(tickers[idx + 1])
    /\ ~ HistoryTooShort(Len(df[tickers[idx + 1]].bars))
    /\ self' = Some(NewOptimizer(tickers[idx + 1], df[tickers[idx + 1]].bars))
    /\ det' = NoDet
    /\ opt' = NoOpt
    /\ result' = None
    /\ pc' = "detect"
    /\ UNCHANGED <<downstreamVars, batchVars>>

\* a plausible slip: the whole result of optimize kept as the instrument's entry
StoreParams_WholeResult ==
    /\ pc = "returned"
    /\ idx < Len(tickers)
    /\ params' = SetItem(params, tickers[idx + 1], result[1])
    /\ idx' = idx + 1
    /\ pc' = "batch"
    /\ UNCHANGED <<downstreamVars, df, tickers, self, det, opt, result>>

\* lines 387-398: result = optimizer.optimize() has returned; keep period and shift
StoreParams ==
    /\ pc = "returned"
    /\ idx < Len(tickers)
    /\ params' = SetItem(params, tickers[idx + 1],
                         [period |-> result[1].period, shift |-> result[1].shift])
    /\ idx' = idx + 1
    /\ pc' = "batch"
    /\ UNCHANGED <<downstreamVars, df, tickers, self, det, opt, result>>

\* lines 400-401: the loop is over, return params
ReturnParams ==
    /\ pc = "batch"
    /\ idx = Len(tickers)
    /\ pc' = "done"
    /\ UNCHANGED <<downstreamVars, df, tickers, idx, params, self, det, opt, result>>

OptimizeAllEtfs ==
    \/ MissingColumns
    \/ ShortHistory
    \/ Construct
    \/ StoreParams
    \/ ReturnParams

---------------------------------------------------------------------------
(* main of generate_Fbis_Levels_Interactive.py, after optimize_all_etfs *)

PARAMS_FILE == "SATID_Fbis_Optimized_Parameters.json"
OUTPUT_HTML == "Support_Levels_Interactive.html"

\* json.dump(params, f): every key of every entry is written, an int as an
\* integer literal and a float as its shortest round-trip literal
JsonDump(obj) == [t \in DOMAIN obj |-> [k \in DOMAIN obj[t] |-> obj[t][k]]]

\* lines 1054-1057: with open(PARAMS_FILE, 'w') as f: json.dump(params, f, indent=2)
SaveParams ==
    /\ pc = "done"
    /\ params_file' = Some(JsonDump(params))
    /\ pc' = "saved"
    /\ UNCHANGED <<batchVars, self, det, opt, result, outputs, pipe, risk>>

\* lines 1059-1064: generate_html and the write of OUTPUT_HTML
SaveHtml ==
    /\ pc = "saved"
    /\ outputs' = outputs \cup {OUTPUT_HTML}
    /\ pc' = "exit"
    /\ UNCHANGED <<batchVars, self, det, opt, result, params_file, pipe, risk>>

Main ==
    \/ SaveParams
    \/ SaveHtml

\* the positions of main inside its try block before the parameter file is
\* opened: load_etf_prices and optimize_all_etfs (lines 1047-1052)
BeforeSave == {"batch", "detect", "lower_highs", "breakout", "swing_lows", "confirm",
               "constructed", "period", "shift", "bar", "returned"}

\* a plausible slip: a handler that saves what the batch has got so far
Raise_SavesPartial ==
    /\ pc \in BeforeSave
    /\ pc' = "failed"
    /\ self' = None
    /\ det' = NoDet
    /\ opt' = NoOpt
    /\ result' = None
    /\ params_file' = Some(JsonDump(params))
    /\ UNCHANGED <<batchVars, outputs, pipe, risk>>

\* load_etf_prices or optimize_all_etfs raises: the exception leaves the try
\* block for one of the two handlers of main, which print it (lines 1085-1092);
\* the locals of the batch are kept as they were when it was raised
Raise ==
    /\ pc \in BeforeSave
    /\ pc' = "failed"
    /\ self' = None
    /\ det' = NoDet
    /\ opt' = NoOpt
    /\ result' = None
    /\ UNCHANGED <<batchVars, downstreamVars>>

---------------------------------------------------------------------------
(* SATID_core_calculations.py: the risk scores of the instruments and of   *)
(* the portfolio.                                                          *)
(*   - distance_pct and volatility are carried in units of 1 / DistScale;  *)
(*   - a score, a horizon in weeks, the square root of a horizon and an    *)
(*     allocation weight are carried in units of 1 / RiskScale;            *)
(*   - a contribution and a portfolio score are products of a score and a  *)
(*     weight, in units of 1 / (RiskScale * RiskScale);                    *)
(*   - the volatility over a horizon is the product of a volatility and a  *)
(*     square root, in units of 1 / (DistScale * RiskScale);               *)
(*   - a double is the record Fin(v), NaN, or Inf(sign).                   *)

DistScale == 10000
RiskScale == 100

MaxScore == 100
ScorePerSigma == 25
WeeksLookback == 13
RiskDefaultPeriod == 8
RiskDefaultShift == 0

Fin(v) == [kind |-> "fin", v |-> v]
NaN == [kind |-> "nan", v |-> 0]
Inf(sign) == [kind |-> "inf", v |-> sign]

Sign(n) == IF n < 0 THEN -1 ELSE IF n > 0 THEN 1 ELSE 0

\* a * b of two doubles, the product of two finite values divided by scale
FMul(a, b, scale) ==
    CASE a.kind = "nan" \/ b.kind = "nan" -> NaN
      [] a.kind = "fin" /\ b.kind = "fin" -> Fin((a.v * b.v) \div scale)
      [] OTHER -> IF Sign(a.v) * Sign(b.v) = 0 THEN NaN ELSE Inf(Sign(a.v) * Sign(b.v))

\* a / b of two numpy doubles: a division by zero yields inf or nan, never an exception
FDiv(a, b, scale) ==
    CASE a.kind = "nan" \/ b.kind = "nan" -> NaN
      [] a.kind = "inf" /\ b.kind = "inf" -> NaN
      [] a.kind = "inf" -> Inf(IF b.v < 0 THEN - a.v ELSE a.v)
      [] b.kind = "inf" -> Fin(0)
      [] b.v = 0 -> IF a.v = 0 THEN NaN ELSE Inf(Sign(a.v))
      [] OTHER -> Fin((a.v * scale) \div b.v)

\* a + b and a - b of two doubles
FAdd(a, b) ==
    CASE a.kind = "nan" \/ b.kind = "nan" -> NaN
      [] a.kind = "fin" /\ b.kind = "fin" -> Fin(a.v + b.v)
      [] a.kind = "inf" /\ b.kind = "inf" -> IF a.v = b.v THEN a ELSE NaN
      [] a.kind = "inf" -> a
      [] OTHER -> b

FNeg(a) == IF a.kind = "nan" THEN NaN ELSE [a EXCEPT !.v = - a.v]

FSub(a, b) == FAdd(a, FNeg(b))

\* x < c and x > c: every comparison with nan is False
FLess(x, c) ==
    CASE x.kind = "nan" -> FALSE
      [] x.kind = "inf" -> x.v < 0
      [] OTHER -> x.v < c

FGreater(x, c) ==
    CASE x.kind = "nan" -> FALSE
      [] x.kind = "inf" -> x.v > 0
      [] OTHER -> x.v > c

\* the builtins min(c, x) and max(c, x): the first argument unless the second is smaller (larger)
PyMin(c, x) == IF FLess(x, c) THEN x ELSE Fin(c)
PyMax(c, x) == IF FGreater(x, c) THEN x ELSE Fin(c)

\* the integer square root, rounded down
RECURSIVE IsqrtIn(_, _, _)
IsqrtIn(n, lo, hi) ==
    IF lo = hi THEN lo
    ELSE LET mid == (lo + hi + 1) \div 2
         IN  IF mid * mid <= n THEN IsqrtIn(n, mid, hi) ELSE IsqrtIn(n, lo, mid - 1)

Isqrt(n) == IsqrtIn(n, 0, IF n < 46340 THEN n ELSE 46340)

\* np.sqrt(horizon_weeks): nan for a negative argument
NpSqrt(horizon_weeks) ==
    IF horizon_weeks < 0 THEN NaN ELSE Fin(Isqrt(horizon_weeks * RiskScale))

\* a plausible slip: the clamp left out
calculate_satid_score_linear_Unclamped(distance_pct, volatility_weekly, horizon_weeks) ==
    IF distance_pct <= 0
    THEN Fin(MaxScore * RiskScale)
    ELSE LET volatility_horizon == FMul(volatility_weekly, NpSqrt(horizon_weeks), 1)
             z_score == FDiv(Fin(distance_pct), volatility_horizon, RiskScale * RiskScale)
         IN  FSub(Fin(MaxScore * RiskScale), FMul(z_score, Fin(ScorePerSigma), 1))

\* a plausible slip: the scale inverted at or below the support, 0 in place of 100
calculate_satid_score_linear_ZeroBelow(distance_pct, volatility_weekly, horizon_weeks) ==
    IF distance_pct <= 0
    THEN Fin(0)
    ELSE LET volatility_horizon == FMul(volatility_weekly, NpSqrt(horizon_weeks), 1)
             z_score == FDiv(Fin(distance_pct), volatility_horizon, RiskScale * RiskScale)
             score == FSub(Fin(MaxScore * RiskScale), FMul(z_score, Fin(ScorePerSigma), 1))
         IN  PyMax(0, PyMin(MaxScore * RiskScale, score))

\* a plausible slip: the horizon volatility without the square root
calculate_satid_score_linear_NoRoot(distance_pct, volatility_weekly, horizon_weeks) ==
    IF distance_pct <= 0
    THEN Fin(MaxScore * RiskScale)
    ELSE LET volatility_horizon == FMul(volatility_weekly, Fin(horizon_weeks), 1)
             z_score == FDiv(Fin(distance_pct), volatility_horizon, RiskScale * RiskScale)
             score == FSub(Fin(MaxScore * RiskScale), FMul(z_score, Fin(ScorePerSigma), 1))
         IN  PyMax(0, PyMin(MaxScore * RiskScale, score))

\* lines 304-309; distance_pct is finite, volatility_weekly a double
calculate_satid_score_linear(distance_pct, volatility_weekly, horizon_weeks) ==
    IF distance_pct <= 0
    THEN Fin(MaxScore * RiskScale)
    ELSE LET volatility_horizon == FMul(volatility_weekly, NpSqrt(horizon_weeks), 1)
             z_score == FDiv(Fin(distance_pct), volatility_horizon, RiskScale * RiskScale)
             score == FSub(Fin(MaxScore * RiskScale), FMul(z_score, Fin(ScorePerSigma), 1))
         IN  PyMax(0, PyMin(MaxScore * RiskScale, score))

\* calculate_ema: ema[0] = prices[0], ema[i] = prices[i] * k + ema[i-1] * (1 - k)
\* with k = 2 / (period + 1), in units of 1 / EmaScale tick
RECURSIVE EmaOfPrices(_, _, _)
EmaOfPrices(prices, period, t) ==
    IF t = 1 THEN << prices[1] * EmaScale >>
    ELSE LET ema == EmaOfPrices(prices, period, t - 1)
         IN  Append(ema, (2 * prices[t] * EmaScale + (period - 1) * ema[t - 1])
                            \div (period + 1))

calculate_ema(prices, period) == EmaOfPrices(prices, period, Len(prices))

\* calculate_ema on the values of a column, nan where the column has none:
\* a nan price makes every later value of the average nan
RECURSIVE EmaOfValues(_, _, _)
EmaOfValues(values, period, t) ==
    IF t = 1
    THEN << IF values[1] = NaN THEN NaN ELSE Fin(values[1].v * EmaScale) >>
    ELSE LET ema == EmaOfValues(values, period, t - 1)
         IN  Append(ema, IF values[t] = NaN \/ ema[t - 1] = NaN THEN NaN
                         ELSE Fin((2 * values[t].v * EmaScale + (period - 1) * ema[t - 1].v)
                                      \div (period + 1)))

\* fbis = ema[-1] * (1 + shift) of analyze_etf_risk, on the values of a column
FbisOfValues(values, period, shift) ==
    LET ema == EmaOfValues(values, period, Len(values))
    IN  IF ema[Len(values)] = NaN THEN NaN
        ELSE Fin(FbisLevel(ema[Len(values)].v, shift))

RECURSIVE SumSeq(_, _)
SumSeq(s, k) == IF k = 0 THEN 0 ELSE SumSeq(s, k - 1) + s[k]

\* calculate_etf_volatility: the sample standard deviation (ddof = 1) of the
\* returns of the last weeks + 1 prices; nan when fewer than two returns remain
calculate_etf_volatility(prices, lookback) ==
    LET weeks == IF Len(prices) < lookback + 1 THEN Len(prices) - 1 ELSE lookback
        recent_prices == SubSeq(prices, Len(prices) - weeks, Len(prices))
        n == Len(recent_prices) - 1
        returns == [i \in 1..n |->
                       ((recent_prices[i + 1] - recent_prices[i]) * DistScale)
                           \div recent_prices[i]]
    IN  IF n < 2 THEN NaN
        ELSE LET mean == SumSeq(returns, n) \div n
                 squares == [i \in 1..n |-> (returns[i] - mean) * (returns[i] - mean)]
             IN  Fin(Isqrt(SumSeq(squares, n) \div (n - 1)))

\* dict.get(key, default)
Get(dict, key, default) == IF key \in DOMAIN dict THEN dict[key] ELSE default

\* (current_price - fbis) / current_price; a positive difference stays positive
DistancePct(current_price, fbis) ==
    LET diff == PriceUnits(current_price) - fbis
        q == diff \div (PriceUnits(current_price) \div DistScale)
    IN  IF diff > 0 /\ q = 0 THEN 1 ELSE q

OneWeek == RiskScale
\* a plausible slip: the month given in years
OneMonth_InYears == RiskScale \div 12

OneMonth == (433 * RiskScale) \div 100

\* lines 334-355
analyze_etf_risk(ticker, prices, fbis_params, weeks_lookback) ==
    LET current_price == prices[Len(prices)]
        period == Get(Get(fbis_params, ticker, [k \in {} |-> 0]), "period", RiskDefaultPeriod)
        shift == Get(Get(fbis_params, ticker, [k \in {} |-> 0]), "shift", RiskDefaultShift)
        ema == calculate_ema(prices, period)
        fbis == FbisLevel(ema[Len(prices)], shift)
        distance_pct == DistancePct(current_price, fbis)
        volatility == calculate_etf_volatility(prices, weeks_lookback)
    IN  [ticker |-> ticker,
         current_price |-> current_price,
         fbis |-> fbis,
         distance_pct |-> distance_pct,
         volatility_weekly |-> volatility,
         satid_score_1week |-> calculate_satid_score_linear(distance_pct, volatility, OneWeek),
         satid_score_1month |-> calculate_satid_score_linear(distance_pct, volatility, OneMonth),
         allocation |-> 0,
         contribution_1week |-> Fin(0),
         contribution_1month |-> Fin(0)]

\* the fallbacks of Portfolio_Risk_Exposure.calculate_portfolio_risk and of
\* generate_chart_data_js for an instrument without an entry in the record
ExposureDefaultPeriod == 20
ExposureDefaultShift == -50
ChartDefaultPeriod == 20
ChartDefaultShift == -50

\* the functions that look an instrument up in the persisted parameter record
ParameterConsumers ==
    {"analyze_etf_risk", "calculate_portfolio_series", "calculate_portfolio_risk",
     "Portfolio_Risk_Exposure.calculate_portfolio_risk", "generate_chart_data_js"}

\* the defaults of the two .get(...) of each of them
Fallback(consumer) ==
    CASE consumer = "Portfolio_Risk_Exposure.calculate_portfolio_risk" ->
            [period |-> ExposureDefaultPeriod, shift |-> ExposureDefaultShift]
      [] consumer = "generate_chart_data_js" ->
            [period |-> ChartDefaultPeriod, shift |-> ChartDefaultShift]
      [] OTHER -> [period |-> RiskDefaultPeriod, shift |-> RiskDefaultShift]

\* period = fbis_params.get(ticker, {}).get('period', ...) and the same for shift
ParamsUsed(consumer, fbis_params, ticker) ==
    [period |-> Get(Get(fbis_params, ticker, [k \in {} |-> 0]), "period",
                    Fallback(consumer).period),
     shift |-> Get(Get(fbis_params, ticker, [k \in {} |-> 0]), "shift",
                   Fallback(consumer).shift)]

\* the inputs, locals and results of the risk scoring before any of it has run
NoRisk == [analysed |-> << >>, prices |-> [t \in {} |-> << >>],
           fbis_params |-> [t \in {} |-> 0], allocations |-> [t \in {} |-> 0],
           etf_results |-> << >>, j |-> 0,
           portfolio_score_1week |-> Fin(0), portfolio_score_1month |-> Fin(0),
           returned |-> None, call |-> None]

\* arguments of the direct calls of calculate_satid_score_linear: a distance
\* below, at and above the support, up to ten times the price; a volatility
\* that is nan, zero, one unit, 1%, 2% and 10%; a horizon that is negative,
\* zero, a quarter of a week, a week, a month and a year
Distances ==
    {- DistScale, - (DistScale \div 100), -1, 0, 1, DistScale \div 20, DistScale \div 10,
     DistScale, 10 * DistScale}
Volatilities ==
    {NaN, Fin(0), Fin(1), Fin(DistScale \div 100), Fin(DistScale \div 50),
     Fin(DistScale \div 10)}
Horizons == {- RiskScale, 0, RiskScale \div 4, OneWeek, OneMonth, 52 * RiskScale}

\* a direct call of calculate_satid_score_linear(distance_pct, volatility_weekly, horizon_weeks)
CallScoreLinear ==
    /\ pc = "call"
    /\ \E d \in Distances, v \in Volatilities, h \in Horizons :
        risk' = [risk EXCEPT !.call = Some([distance_pct |-> d, volatility_weekly |-> v,
                                            horizon_weeks |-> h,
                                            score |-> calculate_satid_score_linear(d, v, h)])]
    /\ pc' = "called"
    /\ UNCHANGED <<batchVars, self, det, opt, result, params_file, outputs, pipe>>

\* etf_results.append(analyze_etf_risk(ticker, prices, fbis_params)) for the next instrument
AnalyzeEtfRisk ==
    /\ pc = "analyze"
    /\ Len(risk.etf_results) < Len(risk.analysed)
    /\ LET ticker == risk.analysed[Len(risk.etf_results) + 1]
       IN  risk' = [risk EXCEPT !.etf_results =
                       Append(@, analyze_etf_risk(ticker, risk.prices[ticker],
                                                  risk.fbis_params, WeeksLookback))]
    /\ UNCHANGED <<batchVars, self, det, opt, result, pc, params_file, outputs, pipe>>

\* calculate_portfolio_satid_scores is called: lines 374-375
PortfolioStart ==
    /\ pc = "analyze"
    /\ Len(risk.etf_results) = Len(risk.analysed)
    /\ risk' = [risk EXCEPT !.j = 1, !.portfolio_score_1week = Fin(0),
                            !.portfolio_score_1month = Fin(0)]
    /\ pc' = "portfolio"
    /\ UNCHANGED <<batchVars, self, det, opt, result, params_file, outputs, pipe>>

\* a plausible slip: the 1-month total accumulated from the 1-week scores
PortfolioStep_WeekTwice ==
    /\ pc = "portfolio"
    /\ risk.j <= Len(risk.etf_results)
    /\ LET res == risk.etf_results[risk.j]
           weight == Get(risk.allocations, res.ticker, 0)
       IN  risk' = [risk EXCEPT
                !.portfolio_score_1week =
                    FAdd(@, FMul(res.satid_score_1week, Fin(weight), 1)),
                !.portfolio_score_1month =
                    FAdd(@, FMul(res.satid_score_1week, Fin(weight), 1)),
                !.etf_results[risk.j] =
                    [res EXCEPT !.allocation = weight,
                                !.contribution_1week =
                                    FMul(res.satid_score_1week, Fin(weight), 1),
                                !.contribution_1month =
                                    FMul(res.satid_score_1month, Fin(weight), 1)],
                !.j = @ + 1]
    /\ UNCHANGED <<batchVars, self, det, opt, result, pc, params_file, outputs, pipe>>

\* lines 376-383: the loop body for one result
PortfolioStep ==
    /\ pc = "portfolio"
    /\ risk.j <= Len(risk.etf_results)
    /\ LET res == risk.etf_results[risk.j]
           weight == Get(risk.allocations, res.ticker, 0)
       IN  risk' = [risk EXCEPT
                !.portfolio_score_1week =
                    FAdd(@, FMul(res.satid_score_1week, Fin(weight), 1)),
                !.portfolio_score_1month =
                    FAdd(@, FMul(res.satid_score_1month, Fin(weight), 1)),
                !.etf_results[risk.j] =
                    [res EXCEPT !.allocation = weight,
                                !.contribution_1week =
                                    FMul(res.satid_score_1week, Fin(weight), 1),
                                !.contribution_1month =
                                    FMul(res.satid_score_1month, Fin(weight), 1)],
                !.j = @ + 1]
    /\ UNCHANGED <<batchVars, self, det, opt, result, pc, params_file, outputs, pipe>>

\* line 384: return portfolio_score_1week, portfolio_score_1month
PortfolioReturn ==
    /\ pc = "portfolio"
    /\ risk.j > Len(risk.etf_results)
    /\ risk' = [risk EXCEPT !.returned =
                   Some(<<risk.portfolio_score_1week, risk.portfolio_score_1month>>)]
    /\ pc' = "scored"
    /\ UNCHANGED <<batchVars, self, det, opt, result, params_file, outputs, pipe>>

RiskScoring ==
    \/ CallScoreLinear
    \/ AnalyzeEtfRisk
    \/ PortfolioStart
    \/ PortfolioStep
    \/ PortfolioReturn

---------------------------------------------------------------------------
(* The scripts that read the persisted parameter record, and the           *)
(* prices_update_only pipeline that runs five of them in sequence.         *)
(* A run of a script is one step: it reads its inputs, then writes its     *)
(* output files in the order of its source, and may stop after any of      *)
(* them (an exception, caught by its main, or a crash).                    *)

OHLC_FILE == "SATID_portfolio_etf_data_weekly_ohlc.csv"

Optimizer == "generate_Fbis_Levels_Interactive.py"
Download == "download_satid_data.py"
Chart == "generate_Fbis_Levels_Interactive_NO_OPTIMIZATION.py"
Exposure == "Portfolio_Risk_Exposure.py"
RiskScore == "SATID_Risk_Score.py"
Dashboard == "Portfolio_Risk_Dashboard.py"
Update == "Update_SATID_With_Current_Parameters.py"
RelativePerformance == "generate_satid_relative_performance.py"
Pipeline == "prices_update_only.py"
FullPipeline == "FULL_Optimization.py"

\* the files each script opens for writing, in the order it writes them
OptimizerWrites == <<PARAMS_FILE, OUTPUT_HTML>>
DownloadWrites == <<OHLC_FILE>>
\* a plausible slip: the chart generator saving the parameters it loaded
ChartWrites_SavesParams == <<PARAMS_FILE, "Support_Levels_Interactive.html">>
ChartWrites == <<"Support_Levels_Interactive.html">>
ExposureWrites == <<"Portfolio_Risk_Exposure.html", "Portfolio_Risk_Exposure.xlsx">>
RiskScoreWrites == <<"SATID_Risk_Score.html", "SATID_Risk_Dashboard.xlsx">>
DashboardWrites == <<"Portfolio_Risk_Dashboard.html">>
UpdateWrites ==
    <<"Portfolio_Risk_Dashboard.html", "Portfolio_Risk_Exposure.html",
      "Portfolio_Risk_Exposure.xlsx", "SATID_Risk_Score.html", "SATID_Risk_Dashboard.xlsx">>
RelativePerformanceWrites == <<"SATID_Relative_Performance.html">>

Writes(file) ==
    CASE file = Optimizer -> OptimizerWrites
      [] file = Download -> DownloadWrites
      [] file = Chart -> ChartWrites
      [] file = Exposure -> ExposureWrites
      [] file = RiskScore -> RiskScoreWrites
      [] file = Dashboard -> DashboardWrites
      [] file = Update -> UpdateWrites
      [] file = RelativePerformance -> RelativePerformanceWrites

\* the files a script reads before it writes anything
Reads(file) ==
    CASE file = Optimizer -> {OHLC_FILE}
      [] file = RelativePerformance -> {OHLC_FILE}
      [] file = Download -> {}
      [] OTHER -> {OHLC_FILE, PARAMS_FILE}

\* the downstream consumers of the parameter record
Consumers == {Chart, Exposure, RiskScore, Dashboard, Update}

\* prices_update_only.SCRIPTS: the scripts run in sequence and the output expected of each
SCRIPTS ==
    <<[file |-> Download, output |-> OHLC_FILE],
      [file |-> Chart, output |-> "Support_Levels_Interactive.html"],
      [file |-> Exposure, output |-> "Portfolio_Risk_Exposure.html"],
      [file |-> RiskScore, output |-> "SATID_Risk_Score.html"],
      [file |-> Dashboard, output |-> "Portfolio_Risk_Dashboard.html"]>>

\* FULL_Optimization.SCRIPTS: the optimizer in place of the chart generator,
\* and the relative performance report at the end
SCRIPTS_FULL ==
    <<[file |-> Download, output |-> OHLC_FILE],
      [file |-> Optimizer, output |-> PARAMS_FILE],
      [file |-> Exposure, output |-> "Portfolio_Risk_Exposure.html"],
      [file |-> RiskScore, output |-> "SATID_Risk_Score.html"],
      [file |-> Dashboard, output |-> "Portfolio_Risk_Dashboard.html"],
      [file |-> RelativePerformance, output |-> "SATID_Relative_Performance.html"]>>

\* the SCRIPTS of each of the two pipelines
ScriptsOf(main) == IF main = FullPipeline THEN SCRIPTS_FULL ELSE SCRIPTS

\* the scripts whose main catches every exception, prints it and returns
CatchesInMain == {Optimizer, Chart, Exposure, RiskScore, Dashboard, Update}

\* parameter records an optimization run may persist
ParamRecords ==
    {[t \in {"SPY", "BIL"} |-> IF t = "SPY" THEN [period |-> 20, shift |-> -50]
                                ELSE [period |-> 16, shift |-> -10]],
     [t \in {"SPY", "BIL"} |-> DefaultParams]}

Exists(f) == IF f = PARAMS_FILE THEN params_file # None ELSE f \in outputs

\* Path(f).exists() once the script has ended
ExistsAfter(f) == IF f = PARAMS_FILE THEN params_file' # None ELSE f \in outputs'

\* the run of a script that got as far as its k-th write; record is what an
\* optimization run dumps into the parameter file
RunOf(file, k, record) ==
    LET written == {Writes(file)[j] : j \in 1..k}
    IN  /\ (\E f \in Reads(file) : ~ Exists(f)) => k = 0
        /\ outputs' = outputs \cup (written \ {PARAMS_FILE})
        /\ params_file' = IF PARAMS_FILE \in written THEN Some(record) ELSE params_file

\* how a run that got as far as its k-th write may end: raised tells an
\* exception inside main, which a catching main prints before it returns
\* normally and which ends another script with a traceback; a run that raised
\* nothing may still end with either code (a failure outside main)
EndsWith(file, k, raised, returncode) ==
    /\ (\E f \in Reads(file) : ~ Exists(f)) => raised
    /\ raised => /\ k < Len(Writes(file))
                 /\ returncode = IF file \in CatchesInMain THEN 0 ELSE 1
    /\ ~ raised /\ returncode = 0 =>
          \/ k = Len(Writes(file))
          \/ file = Download /\ k = 0

NoPipe == [main |-> "", i |-> 0, results |-> << >>, started |-> << >>, exit |-> None,
           ran |-> "", raised |-> FALSE, written |-> {}]

\* a run of generate_Fbis_Levels_Interactive.py from the shell
RunOptimizationScript ==
    /\ pc = "shell"
    /\ \E k \in 0..Len(Writes(Optimizer)), record \in ParamRecords :
            RunOf(Optimizer, k, record)
    /\ pipe' = [pipe EXCEPT !.ran = Optimizer]
    /\ UNCHANGED <<batchVars, self, det, opt, result, pc, risk>>

\* a run of one of the downstream consumers from the shell
RunConsumer ==
    /\ pc = "shell"
    /\ \E file \in Consumers :
        /\ \E k \in 0..Len(Writes(file)), record \in ParamRecords : RunOf(file, k, record)
        /\ pipe' = [pipe EXCEPT !.ran = file]
    /\ UNCHANGED <<batchVars, self, det, opt, result, pc, risk>>

\* main of prices_update_only.py (lines 184-186) and of FULL_Optimization.py
\* (lines 190-192)
PipelineStart ==
    /\ pc = "shell"
    /\ \E main \in {Pipeline, FullPipeline} :
            pipe' = [NoPipe EXCEPT !.main = main, !.i = 1, !.ran = main]
    /\ pc' = "pipeline"
    /\ UNCHANGED <<batchVars, self, det, opt, result, risk, params_file, outputs>>

\* what run_script finds: the script file missing, subprocess.run raising
\* before the script runs, the timeout, or the script ending with a return code
Outcomes == {"missing", "error", "timeout", "exit"}

\* a plausible slip: the loop without its break
PipelineStep_NoBreak ==
    /\ pc = "pipeline"
    /\ pipe.i \in 1..Len(ScriptsOf(pipe.main))
    /\ LET script_info == ScriptsOf(pipe.main)[pipe.i]
           file == script_info.file
       IN  \E how \in Outcomes, k \in 0..Len(Writes(file)), raised \in BOOLEAN,
              returncode \in {0, 1}, record \in ParamRecords :
            /\ how \in {"missing", "error"} => k = 0
            /\ how # "exit" => ~ raised /\ returncode = 1
            /\ how = "exit" => EndsWith(file, k, raised, returncode)
            /\ RunOf(file, k, record)
            /\ LET success == /\ how = "exit"
                              /\ returncode = 0
                              /\ ExistsAfter(script_info.output)
               IN  pipe' = [pipe EXCEPT
                               !.results = Append(@, success),
                               !.started = IF how = "missing" THEN @ ELSE Append(@, file),
                               !.i = @ + 1,
                               !.ran = file,
                               !.raised = raised,
                               !.written = {Writes(file)[j] : j \in 1..k}]
    /\ UNCHANGED <<batchVars, self, det, opt, result, pc, risk>>

\* the loop of main: run_script(script_info) and its result; a failure ends
\* the loop (prices_update_only.py lines 189-201, FULL_Optimization.py lines 195-206)
PipelineStep ==
    /\ pc = "pipeline"
    /\ pipe.i \in 1..Len(ScriptsOf(pipe.main))
    /\ LET script_info == ScriptsOf(pipe.main)[pipe.i]
           file == script_info.file
       IN  \E how \in Outcomes, k \in 0..Len(Writes(file)), raised \in BOOLEAN,
              returncode \in {0, 1}, record \in ParamRecords :
            /\ how \in {"missing", "error"} => k = 0
            /\ how # "exit" => ~ raised /\ returncode = 1
            /\ how = "exit" => EndsWith(file, k, raised, returncode)
            /\ RunOf(file, k, record)
            /\ LET success == /\ how = "exit"
                              /\ returncode = 0
                              /\ ExistsAfter(script_info.output)
               IN  pipe' = [pipe EXCEPT
                               !.results = Append(@, success),
                               !.started = IF how = "missing" THEN @ ELSE Append(@, file),
                               !.i = IF success THEN @ + 1
                                     ELSE Len(ScriptsOf(pipe.main)) + 1,
                               !.ran = file,
                               !.raised = raised,
                               !.written = {Writes(file)[j] : j \in 1..k}]
    /\ UNCHANGED <<batchVars, self, det, opt, result, pc, risk>>

\* print_summary(results) and sys.exit (prices_update_only.py lines 203-206,
\* FULL_Optimization.py lines 208-212)
PipelineEnd ==
    /\ pc = "pipeline"
    /\ pipe.i = Len(ScriptsOf(pipe.main)) + 1
    /\ pipe' = [pipe EXCEPT
                    !.i = 0,
                    !.exit = Some(IF \A j \in 1..Len(pipe.results) : pipe.results[j]
                                  THEN 0 ELSE 1)]
    /\ pc' = "shell"
    /\ UNCHANGED <<batchVars, self, det, opt, result, risk, params_file, outputs>>

PricesUpdateOnly ==
    \/ PipelineStart
    \/ PipelineStep
    \/ PipelineEnd


---------------------------------------------------------------------------
(* Inputs and specifications *)

\* weekly drift of a price path, in percent
Drifts == {-1, 0, 1}

\* instruments of the batch: a mapped bond ETF and an instrument absent from ASSET_CLASSES
BatchTickers == {"BIL", "NEW"}
TickerLists == {<<"BIL", "NEW">>, <<"NEW", "BIL">>}

\* what the dataset holds for an instrument
Kinds == {"full", "late", "short", "no_close", "no_high", "no_low"}

TickerNumber(ticker) == IF ticker = "BIL" THEN 1 ELSE 2

\* the columns of an instrument and its rows after dropna(): a full history of
\* MinSeriesBars weeks from the first week of the dataset, as long a history
\* that starts a week later, or one that starts a week later and is too short
Columns(kind, ticker, seed, drift) ==
    [cols |-> CASE kind = "no_close" -> {"high", "low"}
                [] kind = "no_high"  -> {"close", "low"}
                [] kind = "no_low"   -> {"close", "high"}
                [] OTHER             -> {"close", "high", "low"},
     bars |-> CASE kind = "short" ->
                    PricePath(2 * seed + TickerNumber(ticker), drift, 2, MinSeriesBars - 1)
                [] kind = "late" ->
                    PricePath(2 * seed + TickerNumber(ticker), drift, 2, MinSeriesBars)
                [] OTHER ->
                    PricePath(2 * seed + TickerNumber(ticker), drift, 1, MinSeriesBars)]

\* df.index of the dataset: the dates of the rows of the CSV file
DatasetDates == UNION {{df[t].bars[i].date : i \in 1..Len(df[t].bars)} : t \in DOMAIN df}

\* the dates of the dataset in ascending order
RECURSIVE SortedDates(_)
SortedDates(S) ==
    IF S = {} THEN << >> ELSE <<MinOf(S)>> \o SortedDates(S \ {MinOf(S)})

\* df[close_col].values: the close of the instrument at every date of the
\* dataset, nan at a date where its history has no row
CloseValues(ticker) ==
    LET index == SortedDates(DatasetDates)
        bars == df[ticker].bars
        At(d) == IF \E i \in 1..Len(bars) : bars[i].date = d
                 THEN Fin(bars[CHOOSE i \in 1..Len(bars) : bars[i].date = d].close)
                 ELSE NaN
    IN  [k \in 1..Len(index) |-> At(index[k])]

\* the state when optimize_all_etfs(df, tickers) is entered
Init ==
    \E seed \in 1..MaxSeed, drift \in Drifts, list \in TickerLists,
       kinds \in [BatchTickers -> Kinds] :
        /\ df = [t \in BatchTickers |-> Columns(kinds[t], t, seed, drift)]
        /\ tickers = list
        /\ idx = 0
        /\ params = [t \in {} |-> DefaultParams]
        /\ self = None
        /\ det = NoDet
        /\ opt = NoOpt
        /\ result = None
        /\ pc = "batch"
        /\ params_file = None
        /\ outputs = {}
        /\ pipe = NoPipe
        /\ risk = NoRisk

Next ==
    \/ OptimizeAllEtfs
    \/ DetectTrendChange
    \/ Optimize
    \/ Main

Spec == Init /\ [][Next]_vars

\* what main may find of the dataset: a full history, one too short, or a
\* column missing
MainKinds == {"full", "short", "no_close"}

\* the parameter file before main runs: absent, or the record of an earlier run
EarlierRecords == {None, Some([t \in BatchTickers |-> DefaultParams])}

\* the state when main of generate_Fbis_Levels_Interactive.py enters its try block
InitMain ==
    \E seed \in 1..MaxSeed, drift \in Drifts, list \in TickerLists,
       kinds \in [BatchTickers -> MainKinds], earlier \in EarlierRecords :
        /\ df = [t \in BatchTickers |-> Columns(kinds[t], t, seed, drift)]
        /\ tickers = list
        /\ idx = 0
        /\ params = [t \in {} |-> DefaultParams]
        /\ self = None
        /\ det = NoDet
        /\ opt = NoOpt
        /\ result = None
        /\ pc = "batch"
        /\ params_file = earlier
        /\ outputs = {}
        /\ pipe = NoPipe
        /\ risk = NoRisk

NextMain ==
    \/ Next
    \/ Raise

SpecMain == InitMain /\ [][NextMain]_vars

\* lengths of the series handed to the optimizer directly
SeriesLengths == {1, 8, 9, 10, 24, 40}
OptimizerTickers == {"BIL", "SPY"}

\* the state when ConstrainedFbisOptimizer(ticker, close, high, low) is constructed
\* on a series of any length and optimize() is called on it
InitOptimizer ==
    \E seed \in 1..MaxSeed, drift \in Drifts, n \in SeriesLengths,
       ticker \in OptimizerTickers :
        /\ df = [t \in {} |-> 0]
        /\ tickers = << >>
        /\ idx = 0
        /\ params = [t \in {} |-> DefaultParams]
        /\ self = Some(NewOptimizer(ticker, PricePath(seed, drift, 1, n)))
        /\ det = NoDet
        /\ opt = NoOpt
        /\ result = None
        /\ pc = "detect"
        /\ params_file = None
        /\ outputs = {}
        /\ pipe = NoPipe
        /\ risk = NoRisk

NextOptimizer ==
    \/ DetectTrendChange
    \/ Optimize

SpecOptimizer == InitOptimizer /\ [][NextOptimizer]_vars

\* the instruments of the risk scoring, the lists analysed, the allocation
\* weights (which need not cover the instruments analysed, nor sum to 1), the
\* parameter records read and the lengths of the close series
RiskTickers == {"SPY", "BIL", "GLD"}
Analysed == {<<"SPY", "BIL">>, <<"BIL", "GLD", "SPY">>, <<"GLD">>}
Pct(n) == (n * RiskScale) \div 100
Allocations ==
    {[t \in {"SPY", "BIL"} |-> IF t = "SPY" THEN Pct(60) ELSE Pct(40)],
     [t \in {"SPY"} |-> Pct(100)],
     [t \in {"SPY", "BIL", "GLD"} |-> IF t = "SPY" THEN Pct(50)
                                      ELSE IF t = "BIL" THEN Pct(30) ELSE Pct(20)],
     [t \in {"BIL", "GLD"} |-> Pct(25)]}
FbisParams ==
    {[t \in {"SPY", "BIL"} |-> IF t = "SPY" THEN [period |-> 20, shift |-> -50]
                                ELSE [period |-> 16, shift |-> -10]],
     [t \in {"SPY"} |-> [period |-> 24, shift |-> -20]],
     [t \in {} |-> DefaultParams]}
PriceLengths == {1, 2, 3, 14, 20}
InstrumentNumber(t) == IF t = "SPY" THEN 0 ELSE IF t = "BIL" THEN 1 ELSE 2
Closes(bars) == [i \in 1..Len(bars) |-> bars[i].close]

\* the state before a direct call of calculate_satid_score_linear
InitScoreCall ==
    /\ risk = NoRisk
    /\ pc = "call"

\* the state before the instruments of a list are analysed and the portfolio scored
InitPortfolio ==
    \E seed \in 1..MaxSeed, drift \in Drifts, n \in PriceLengths, analysed \in Analysed,
       allocations \in Allocations, fbis_params \in FbisParams :
        /\ risk = [NoRisk EXCEPT
                      !.analysed = analysed,
                      !.prices = [t \in RiskTickers |->
                                     Closes(PricePath(3 * seed + InstrumentNumber(t),
                                                      drift, 1, n))],
                      !.fbis_params = fbis_params,
                      !.allocations = allocations]
        /\ pc = "analyze"

InitRisk ==
    /\ df = [t \in {} |-> 0]
    /\ tickers = << >>
    /\ idx = 0
    /\ params = [t \in {} |-> DefaultParams]
    /\ self = None
    /\ det = NoDet
    /\ opt = NoOpt
    /\ result = None
    /\ params_file = None
    /\ outputs = {}
    /\ pipe = NoPipe
    /\ (InitScoreCall \/ InitPortfolio)

NextRisk == RiskScoring

SpecRisk == InitRisk /\ [][NextRisk]_vars

\* the working directory before any script runs: the parameter record absent
\* or left by an earlier optimization, the price file absent or present
InitScripts ==
    /\ df = [t \in {} |-> 0]
    /\ tickers = << >>
    /\ idx = 0
    /\ params = [t \in {} |-> DefaultParams]
    /\ self = None
    /\ det = NoDet
    /\ opt = NoOpt
    /\ result = None
    /\ risk = NoRisk
    /\ pipe = NoPipe
    /\ pc = "shell"
    /\ params_file \in {None} \cup {Some(r) : r \in ParamRecords}
    /\ outputs \in {{}, {OHLC_FILE}}

NextScripts ==
    \/ RunOptimizationScript
    \/ RunConsumer
    \/ PricesUpdateOnly

SpecScripts == InitScripts /\ [][NextScripts]_vars

---------------------------------------------------------------------------
(* Properties of the evaluation of one candidate *)

\* the step taken is the evaluation of one bar of the window
BarStep == pc = "bar" /\ opt.i <= Len(opt.opt_idx)

\* the bar under evaluation and the support level it is compared with
CurBar == self[1].bars[opt.opt_idx[opt.i]]

Inc(b) == IF b THEN 1 ELSE 0

\* C1: for every candidate and every bar of the window, the bar is counted as a
\* support test exactly when its low is within the tolerance band of the
\* support level and its close is at or above the level; otherwise it is
\* counted as a breach exactly when its close is strictly below the level,
\* a low inside the band with a close below the level included.
C1_ClassificationAsClaimed ==
    [][BarStep =>
         LET level == CurrentLevel(opt.i)
             test == /\ WithinTolerance(CurBar.low, level)
                     /\ PriceUnits(CurBar.close) >= level
             breach == ~ test /\ PriceUnits(CurBar.close) < level
         IN  /\ opt'.support_tests = opt.support_tests + Inc(test)
             /\ opt'.breaches = opt.breaches + Inc(breach)]_vars

\* C2: every bar increments at most one of the two counters, so that both
\* counts are non-negative and their sum is at most the number of bars
\* evaluated, hence at most the number of bars of the window.
C2_AtMostOneCounterPerBar ==
    [][/\ BarStep =>
            /\ opt'.support_tests - opt.support_tests \in {0, 1}
            /\ opt'.breaches - opt.breaches \in {0, 1}
            /\ (opt'.support_tests - opt.support_tests)
                 + (opt'.breaches - opt.breaches) <= 1
       /\ pc' = "bar" =>
            /\ opt'.support_tests >= 0
            /\ opt'.breaches >= 0
            /\ opt'.support_tests + opt'.breaches <= opt'.i - 1
            /\ opt'.i - 1 <= Len(opt'.opt_idx)]_vars

\* a candidate has been evaluated over its whole window and holds both tests and breaches
C2_Witness ==
    /\ pc = "bar"
    /\ opt.i > Len(opt.opt_idx)
    /\ opt.support_tests > 0
    /\ opt.breaches > 0

---------------------------------------------------------------------------
(* Properties of the result of optimize *)

\* the series of the optimizer, its evaluation window, and the profile of its instrument
Bars == self[1].bars
Window == OptMask(Bars, self[1].trend_start[1])
Profile == ConstraintsOf(AssetClassOf(self[1].ticker))
Periods == Range(Profile.ema_range)
Shifts == Range(Profile.shift_range)

\* the bars of the window that a candidate's support line counts as tests, as breaches
TestsIn(ema, shift) ==
    {k \in 1..Len(Window) :
        IsSupportTest(Bars[Window[k]].low, Bars[Window[k]].close,
                      FbisLevel(ema[Window[k]], shift))}

BreachesIn(ema, shift) ==
    {k \in 1..Len(Window) :
        IsBreach(Bars[Window[k]].low, Bars[Window[k]].close,
                 FbisLevel(ema[Window[k]], shift))}

\* tests, breaches and score of every candidate of the profile
Evaluation ==
    [p \in Periods |->
        LET ema == _calculate_ema(Bars, p)
        IN  [s \in Shifts |->
                LET t == Cardinality(TestsIn(ema, s))
                    b == Cardinality(BreachesIn(ema, s))
                IN  [tests |-> t, breaches |-> b,
                     score |-> t * SUPPORT_TEST_REWARD - b * BREACH_PENALTY]]]

\* optimize has returned from a window of at least 10 bars
Searched == pc = "returned" /\ Len(Window) >= MinWindowBars

\* C3: whenever the window holds at least 10 bars, the result is a candidate of
\* the profile of the instrument's asset class whose score is at least the
\* score of every candidate of the grid, and its tests, breaches and score are
\* the counts and the score of the returned (period, shift).
C3_ReturnsBestCandidate ==
    Searched =>
        LET r == result[1]
            ev == Evaluation
        IN  /\ r.period \in Periods
            /\ r.shift \in Shifts
            /\ \A p \in Periods, s \in Shifts : ev[p][s].score <= r.score
            /\ r.tests = ev[r.period][r.shift].tests
            /\ r.breaches = ev[r.period][r.shift].breaches
            /\ r.score = ev[r.period][r.shift].score

\* a search has returned a candidate that beats another one
C3_Witness ==
    /\ Searched
    /\ \E p \in Periods, s \in Shifts : Evaluation[p][s].score < result[1].score

\* C4: when several candidates share the maximal score, the first in ascending
\* (period, shift) order is returned: no candidate of equal score precedes it.
C4_FirstOfTheTiedWins ==
    Searched =>
        LET r == result[1]
            ev == Evaluation
        IN  ~ \E p \in Periods, s \in Shifts :
                /\ ev[p][s].score = r.score
                /\ p < r.period \/ (p = r.period /\ s < r.shift)

\* a search has returned from a grid on which another candidate ties with the best
C4_Witness ==
    /\ Searched
    /\ \E p \in Periods, s \in Shifts :
        /\ <<p, s>> # <<result[1].period, result[1].shift>>
        /\ Evaluation[p][s].score = result[1].score
        /\ \A q \in Periods, t \in Shifts : Evaluation[q][t].score <= result[1].score

---------------------------------------------------------------------------
(* Properties of detect_trend_change *)

\* detect_trend_change has returned into the optimizer
DetectionReturned == pc \in {"constructed", "period", "shift", "bar", "returned"}

TrendStart == self[1].trend_start[1]
Info == self[1].detection_info
Dates == {Bars[i].date : i \in 1..Len(Bars)}

\* d is a date at which the close of the series is at its global minimum
IsGlobalMinimumDate(d) ==
    \E i \in 1..Len(Bars) :
        /\ Bars[i].date = d
        /\ \A j \in 1..Len(Bars) : Bars[i].close <= Bars[j].close

\* what the series holds, stage by stage, whatever path the detection took
SwingHighsOfSeries == find_swing_highs(Bars, SwingWindow)
LowerHighsOfSeries == identify_lower_highs(SwingHighsOfSeries, MinHighs)
LastAnchorDate == LowerHighsOfSeries[Len(LowerHighsOfSeries)].date

BreakoutOfSeries ==
    IF Len(SwingHighsOfSeries) < 2 \/ Len(LowerHighsOfSeries) < 2 THEN None
    ELSE detect_breakout(Bars, create_downtrend_line(LowerHighsOfSeries), LastAnchorDate)

PreBreakoutLowsOfSeries ==
    LET IsBefore(l) == l.date < BreakoutOfSeries[1].date
    IN  SelectSeq(find_swing_lows(Bars, SwingWindow), IsBefore)

ConfirmationOfSeries ==
    IF BreakoutOfSeries = None THEN None
    ELSE IF PreBreakoutLowsOfSeries = << >> THEN None
    ELSE confirm_higher_low(Bars, BreakoutOfSeries,
                            PreBreakoutLowsOfSeries[Len(PreBreakoutLowsOfSeries)],
                            WeeksToWait)

\* C5: detect_trend_change ends in exactly one of three outcomes and always
\* returns a date: the confirmation date when a breakout was found and
\* confirmed by a higher low, otherwise the breakout date when a breakout was
\* found, otherwise the date of the global minimum close; a confirmation is
\* never used without a breakout, nor the breakout date when one exists.
C5_ThreeTerminalOutcomes ==
    pc = "constructed" =>
        /\ self[1].trend_start # None
        /\ DOMAIN Info \in {{}, {"breakout"}, {"breakout", "confirmation"}}
        /\ ("confirmation" \in DOMAIN Info) <=> (ConfirmationOfSeries # None)
        /\ ("breakout" \in DOMAIN Info) <=> (BreakoutOfSeries # None)
        /\ ConfirmationOfSeries # None => BreakoutOfSeries # None
        /\ IF ConfirmationOfSeries # None
           THEN /\ TrendStart = ConfirmationOfSeries[1].date
                /\ Info["confirmation"] = ConfirmationOfSeries[1]
                /\ Info["breakout"] = BreakoutOfSeries[1]
           ELSE IF BreakoutOfSeries # None
           THEN /\ TrendStart = BreakoutOfSeries[1].date
                /\ Info["breakout"] = BreakoutOfSeries[1]
           ELSE IsGlobalMinimumDate(TrendStart)

\* the detection has returned the date of a confirmation that differs from the breakout's
C5_Witness ==
    /\ pc = "constructed"
    /\ "confirmation" \in DOMAIN Info
    /\ TrendStart = det.confirmation[1].date
    /\ TrendStart # det.breakout[1].date

\* no bar dated after the last anchor closes above the downtrend line
NoBarAboveLine ==
    /\ Len(LowerHighsOfSeries) >= 2
    /\ \A i \in 1..Len(Bars) :
        Bars[i].date > LastAnchorDate =>
            ~ AboveLine(Bars[i].close, create_downtrend_line(LowerHighsOfSeries)[1],
                        Bars[i].date)

\* no two consecutive swing highs are strictly decreasing
NoLowerHighsRun ==
    ~ \E k \in 1..(Len(SwingHighsOfSeries) - 1) :
        SwingHighsOfSeries[k + 1].price < SwingHighsOfSeries[k].price

\* C6: whenever no breakout can be established (fewer than 2 swing highs, or
\* no run of at least 2 strictly decreasing swing highs, or no bar after the
\* last anchor closing above the downtrend line), detect_trend_change returns
\* the date of the global minimum close with empty detection metadata.
C6_FallbackToGlobalMinimum ==
    pc = "constructed" =>
        ((Len(SwingHighsOfSeries) < 2 \/ NoLowerHighsRun \/ NoBarAboveLine) =>
            /\ self[1].trend_start # None
            /\ IsGlobalMinimumDate(TrendStart)
            /\ Info = EmptyInfo)

\* a downtrend line was fitted, no bar broke above it, and the detection fell back
C6_Witness ==
    /\ pc = "constructed"
    /\ Len(det.lower_highs) >= 2
    /\ det.breakout = None
    /\ NoBarAboveLine
    /\ Info = EmptyInfo

\* C7: for every non-empty series the trend start handed to the optimizer is a
\* date of the series, so that the evaluation window selected in optimize
\* holds at least one bar on the confirmation, breakout and fallback paths.
C7_WindowNeverEmpty ==
    DetectionReturned =>
        /\ TrendStart \in Dates
        /\ pc # "constructed" =>
            /\ Len(opt.opt_idx) >= 1
            /\ \A k \in 1..Len(opt.opt_idx) : Bars[opt.opt_idx[k]].date >= TrendStart
            /\ \A i \in 1..Len(Bars) :
                Bars[i].date >= TrendStart => \E k \in 1..Len(opt.opt_idx) : opt.opt_idx[k] = i

\* optimize has selected its window from a breakout date that is not the first bar
C7_Witness ==
    /\ pc = "returned"
    /\ DOMAIN Info = {"breakout"}
    /\ Len(opt.opt_idx) >= 1
    /\ Len(opt.opt_idx) < Len(Bars)

---------------------------------------------------------------------------
(* Properties of the fixed default and of the batch *)

\* C8: a series of fewer than 52 bars, or a window of fewer than 10 bars,
\* yields period 20 and shift -0.05 (score, tests and breaches 0 where they
\* are returned) and no candidate is evaluated; a series of at least 52 bars
\* with a window of at least 10 bars is always searched.
C8_DefaultWithoutSearch ==
    [][/\ (pc = "batch" /\ idx < Len(tickers) /\ ~ ColumnsMissing(tickers[idx + 1])) =>
            IF Len(df[tickers[idx + 1]].bars) < MinSeriesBars
            THEN /\ params' = SetItem(params, tickers[idx + 1], DefaultParams)
                 /\ pc' = "batch"
                 /\ UNCHANGED <<self, opt, result>>
            ELSE /\ pc' = "detect"
                 /\ opt'.evaluated = 0
       /\ pc = "returned" =>
            IF Len(Window) < MinWindowBars
            THEN /\ result[1] = [period |-> DefaultPeriod, shift |-> DefaultShift,
                                 tests |-> 0, breaches |-> 0, score |-> 0,
                                 trend_start |-> TrendStart]
                 /\ opt.evaluated = 0
                 /\ params'[tickers[idx + 1]] = DefaultParams
            ELSE /\ opt.evaluated = Cardinality(Periods) * Cardinality(Shifts)
                 /\ opt.evaluated > 0
                 /\ params'[tickers[idx + 1]] =
                        [period |-> result[1].period, shift |-> result[1].shift]]_vars

\* the batch has given the default to a short history and to a history of 52
\* bars whose window holds fewer than 10 bars, without evaluating a candidate
C8_Witness ==
    /\ pc = "done"
    /\ self # None
    /\ Len(Bars) >= MinSeriesBars
    /\ Len(opt.opt_idx) < MinWindowBars
    /\ opt.evaluated = 0
    /\ params[self[1].ticker] = DefaultParams
    /\ \E t \in DOMAIN params :
        /\ ~ ColumnsMissing(t)
        /\ Len(df[t].bars) < MinSeriesBars
        /\ params[t] = DefaultParams

ResultKeys == {"period", "shift", "tests", "breaches", "score", "trend_start"}

\* C9 as claimed: every result of optimize, the fixed default included, holds
\* period, shift, tests, breaches, score, trend start and asset class.
C9_AllFieldsAsClaimed ==
    pc = "returned" =>
        /\ result # None
        /\ DOMAIN result[1] = ResultKeys \cup {"asset_class"}

\* C9 as amended: for any series of at least one bar optimize returns, and the
\* record it returns holds period, shift, tests, breaches, score and trend
\* start; the asset class is present exactly when the grid search ran, the
\* fixed default carries none.
C9_WellFormedResult ==
    /\ pc \in {"detect", "lower_highs", "breakout", "swing_lows", "confirm",
               "constructed", "period", "shift", "bar", "returned"}
    /\ pc = "returned" =>
        /\ result # None
        /\ ResultKeys \subseteq DOMAIN result[1]
        /\ result[1].period \in Nat \ {0}
        /\ result[1].shift \in Int
        /\ result[1].tests \in Nat
        /\ result[1].breaches \in Nat
        /\ result[1].score \in Int
        /\ result[1].trend_start \in Dates
        /\ ("asset_class" \in DOMAIN result[1]) <=> (Len(Window) >= MinWindowBars)
        /\ "asset_class" \in DOMAIN result[1] =>
                result[1].asset_class = AssetClassOf(self[1].ticker)

\* optimize has returned the fixed default for a series of a single bar
C9_Witness ==
    /\ pc = "returned"
    /\ Len(Bars) = 1
    /\ DOMAIN result[1] = ResultKeys

\* C10: optimize_all_etfs processes the tickers one at a time in list order
\* and returns an entry for every ticker; a ticker with a missing high, low or
\* close column receives the default and the next ticker is processed; nothing
\* in one instrument's data stops the batch.
C10_EveryTickerGetsParams ==
    /\ idx \in 0..Len(tickers)
    /\ DOMAIN params = {tickers[k] : k \in 1..idx}
    /\ \A k \in 1..idx : ColumnsMissing(tickers[k]) => params[tickers[k]] = DefaultParams
    /\ pc \notin {"batch", "done", "saved", "exit"} =>
        /\ idx < Len(tickers)
        /\ self[1].ticker = tickers[idx + 1]
    /\ pc \in {"done", "saved", "exit"} =>
        /\ idx = Len(tickers)
        /\ DOMAIN params = Range(tickers)
    /\ pc = "returned" => result # None

\* the batch has ended after skipping its first ticker for a missing column and
\* searching the grid for its second
C10_Witness ==
    /\ pc = "done"
    /\ ColumnsMissing(tickers[1])
    /\ ~ ColumnsMissing(tickers[2])
    /\ params[tickers[1]] = DefaultParams
    /\ self # None
    /\ self[1].ticker = tickers[2]
    /\ opt.evaluated > 0

---------------------------------------------------------------------------
(* Properties of the asset-class profiles *)

\* the candidates of profile c lie within the span of the candidates of profile wide
Covers(wide, c) ==
    /\ \A p \in Range(c.ema_range) :
            /\ MinOf(Range(wide.ema_range)) <= p
            /\ p <= MaxOf(Range(wide.ema_range))
    /\ \A s \in Range(c.shift_range) :
            /\ MinOf(Range(wide.shift_range)) <= s
            /\ s <= MaxOf(Range(wide.shift_range))

\* C11: an instrument absent from ASSET_CLASSES is optimized with the broadest
\* profile: no configured class offers a candidate period or shift outside the
\* range searched for the unmapped instrument.
C11_UnmappedGetsBroadestProfile ==
    (self # None /\ self[1].ticker \notin DOMAIN ASSET_CLASSES) =>
        \A c \in DOMAIN CONSTRAINTS : Covers(self[1].constraints, CONSTRAINTS[c])

---------------------------------------------------------------------------
(* Properties of the score *)

\* the step taken is the scoring of a candidate evaluated over its whole window
ScoreStep == pc = "bar" /\ opt.i > Len(opt.opt_idx)

\* C12: the score of every candidate is tests * 1 - breaches * 3; while a
\* candidate is evaluated, a bar that adds a breach lowers the score of its
\* counts by exactly 3 and a bar that adds a test raises it by exactly 1; a
\* candidate with 8 tests and 2 breaches scores 2.
C12_ScoreIsTestsMinusThreeBreaches ==
    [][/\ ScoreStep =>
            /\ opt'.score = Some(opt.support_tests - 3 * opt.breaches)
            /\ (opt.support_tests = 8 /\ opt.breaches = 2) => opt'.score = Some(2)
       /\ (BarStep /\ opt'.support_tests = opt.support_tests
                   /\ opt'.breaches = opt.breaches + 1) =>
            /\ Score(opt'.support_tests, opt'.breaches)
                 = Score(opt.support_tests, opt.breaches) - 3
            /\ Score(opt'.support_tests, opt'.breaches)
                 < Score(opt.support_tests, opt.breaches)
       /\ (BarStep /\ opt'.breaches = opt.breaches
                   /\ opt'.support_tests = opt.support_tests + 1) =>
            Score(opt'.support_tests, opt'.breaches)
                 = Score(opt.support_tests, opt.breaches) + 1]_vars

\* a candidate with both tests and breaches has been scored
C12_Witness ==
    /\ pc = "shift"
    /\ opt.score # None
    /\ opt.support_tests > 0
    /\ opt.breaches > 0
    /\ opt.score[1] = opt.support_tests - 3 * opt.breaches

---------------------------------------------------------------------------
(* Properties of the persisted parameter record *)

ParamKeys == {"period", "shift"}

\* every entry of the map m holds exactly a period and a shift
TwoFieldEntries(m) ==
    \A t \in DOMAIN m :
        /\ DOMAIN m[t] = ParamKeys
        /\ m[t].period \in Nat \ {0}
        /\ m[t].shift \in Int

\* C17: every entry of the map built by optimize_all_etfs and of the record
\* persisted by main has exactly the two fields period and shift, keyed by
\* instrument identifier, whether the instrument missed a column, had fewer
\* than 52 bars or was optimized; the persisted record is the map returned.
C17_OnlyPeriodAndShiftPersisted ==
    /\ DOMAIN params \subseteq Range(tickers)
    /\ TwoFieldEntries(params)
    /\ (params_file # None) <=> (pc \in {"saved", "exit"})
    /\ params_file # None =>
        /\ DOMAIN params_file[1] = Range(tickers)
        /\ TwoFieldEntries(params_file[1])
        /\ params_file[1] = params

\* main has persisted the default of an instrument with a short history next to
\* the optimized parameters of another, which differ from the default
C17_Witness ==
    /\ pc = "saved"
    /\ \E t \in DOMAIN params_file[1] :
        /\ ~ ColumnsMissing(t)
        /\ HistoryTooShort(Len(df[t].bars))
        /\ params_file[1][t] = DefaultParams
    /\ \E t \in DOMAIN params_file[1] :
        /\ ~ ColumnsMissing(t)
        /\ ~ HistoryTooShort(Len(df[t].bars))
        /\ opt.evaluated > 0
        /\ params_file[1][t] # DefaultParams
        /\ params_file[1][t] = [period |-> result[1].period, shift |-> result[1].shift]

---------------------------------------------------------------------------
(* Properties of the risk scores *)

\* the direct call made, and the results of analyze_etf_risk so far
Call == risk.call[1]
Results == risk.etf_results
Called == pc = "called" /\ risk.call # None

InScoreRange(score) ==
    /\ score.kind = "fin"
    /\ 0 <= score.v
    /\ score.v <= 100 * RiskScale

\* C13: calculate_satid_score_linear never returns a value outside [0, 100],
\* whatever the distance, the weekly volatility (tiny, zero or nan included)
\* and the horizon; both scores of every instrument analysed lie in [0, 100].
C13_ScoreWithinBounds ==
    /\ Called => InScoreRange(Call.score)
    /\ \A k \in 1..Len(Results) :
        /\ InScoreRange(Results[k].satid_score_1week)
        /\ InScoreRange(Results[k].satid_score_1month)

\* a distance of ten times the price with a volatility of one unit has been
\* scored over one week, and the score is clamped to 0
C13_Witness ==
    /\ Called
    /\ Call.distance_pct = 10 * DistScale
    /\ Call.volatility_weekly = Fin(1)
    /\ Call.horizon_weeks = OneWeek
    /\ Call.score = Fin(0)

\* C14: whenever distance_pct <= 0 the score is exactly 100, for every
\* volatility and every horizon, the volatility playing no part.
C14_AtOrBelowSupportScores100 ==
    /\ (Called /\ Call.distance_pct <= 0) => Call.score = Fin(100 * RiskScale)
    /\ \A k \in 1..Len(Results) :
        Results[k].distance_pct <= 0 =>
            /\ Results[k].satid_score_1week = Fin(100 * RiskScale)
            /\ Results[k].satid_score_1month = Fin(100 * RiskScale)

\* a price exactly at the support has been scored with a zero volatility over
\* a zero horizon, and the score is 100
C14_Witness ==
    /\ Called
    /\ Call.distance_pct = 0
    /\ Call.volatility_weekly = Fin(0)
    /\ Call.horizon_weeks = 0
    /\ Call.score = Fin(100 * RiskScale)

\* s is clamp(100 - 25 * d / (v * sqrt(h)), 0, 100) in the fixed point of the
\* model, for d > 0, v > 0 and h > 0: r is the root of h and z the z-score,
\* both rounded down, stated by products only
IsLinearScore(d, v, h, s) ==
    \E r \in 1..(27 * RiskScale) :
        /\ r * r <= h * RiskScale
        /\ h * RiskScale < (r + 1) * (r + 1)
        /\ LET sigma == v * r
               dist == d * RiskScale * RiskScale
           IN  \/ /\ s = 0
                  /\ dist >= 4 * RiskScale * sigma
               \/ /\ s = 100 * RiskScale
                  /\ dist < sigma
               \/ /\ 0 < s
                  /\ s < 100 * RiskScale
                  /\ (100 * RiskScale - s) % 25 = 0
                  /\ ((100 * RiskScale - s) \div 25) * sigma <= dist
                  /\ dist < ((100 * RiskScale - s) \div 25 + 1) * sigma

\* C15: for distance_pct > 0 and a positive volatility the score is
\* clamp(100 - 25 * distance_pct / (volatility_weekly * sqrt(h)), 0, 100); a
\* distance of 0.05 with a volatility of 0.02 over one week scores 37.5 (to a
\* quarter of a point); analyze_etf_risk applies it with h = 1 and h = 4.33
\* to the same distance and volatility.
C15_LinearInZScore ==
    /\ (/\ Called
        /\ Call.distance_pct > 0
        /\ Call.volatility_weekly.kind = "fin"
        /\ Call.volatility_weekly.v > 0
        /\ Call.horizon_weeks > 0) =>
            /\ Call.score.kind = "fin"
            /\ IsLinearScore(Call.distance_pct, Call.volatility_weekly.v,
                             Call.horizon_weeks, Call.score.v)
            /\ (/\ Call.distance_pct = DistScale \div 20
                /\ Call.volatility_weekly.v = DistScale \div 50
                /\ Call.horizon_weeks = OneWeek) =>
                    /\ 375 * RiskScale - 250 <= 10 * Call.score.v
                    /\ 10 * Call.score.v <= 375 * RiskScale + 250
    /\ \A k \in 1..Len(Results) :
        (/\ Results[k].distance_pct > 0
         /\ Results[k].volatility_weekly.kind = "fin"
         /\ Results[k].volatility_weekly.v > 0) =>
            /\ Results[k].satid_score_1week.kind = "fin"
            /\ Results[k].satid_score_1month.kind = "fin"
            /\ IsLinearScore(Results[k].distance_pct, Results[k].volatility_weekly.v,
                             RiskScale, Results[k].satid_score_1week.v)
            /\ IsLinearScore(Results[k].distance_pct, Results[k].volatility_weekly.v,
                             (433 * RiskScale) \div 100, Results[k].satid_score_1month.v)

\* an instrument above its support has been analysed, and neither of its two
\* scores is clamped: the 1-month score is the higher
C15_Witness ==
    /\ pc = "analyze"
    /\ \E k \in 1..Len(Results) :
        /\ Results[k].distance_pct > 0
        /\ Results[k].volatility_weekly.kind = "fin"
        /\ Results[k].volatility_weekly.v > 0
        /\ 0 < Results[k].satid_score_1week.v
        /\ Results[k].satid_score_1week.v < Results[k].satid_score_1month.v
        /\ Results[k].satid_score_1month.v < 100 * RiskScale

\* the allocation weight of the k-th instrument analysed, 0 when it has none
WeightOf(k) ==
    IF Results[k].ticker \in DOMAIN risk.allocations
    THEN risk.allocations[Results[k].ticker] ELSE 0

\* the sums over the first k instruments of score * weight, per horizon, and
\* of the contributions recorded on them
RECURSIVE WeightedWeek(_)
WeightedWeek(k) ==
    IF k = 0 THEN 0 ELSE WeightedWeek(k - 1) + Results[k].satid_score_1week.v * WeightOf(k)

RECURSIVE WeightedMonth(_)
WeightedMonth(k) ==
    IF k = 0 THEN 0 ELSE WeightedMonth(k - 1) + Results[k].satid_score_1month.v * WeightOf(k)

RECURSIVE ContributedWeek(_)
ContributedWeek(k) ==
    IF k = 0 THEN 0 ELSE ContributedWeek(k - 1) + Results[k].contribution_1week.v

RECURSIVE ContributedMonth(_)
ContributedMonth(k) ==
    IF k = 0 THEN 0 ELSE ContributedMonth(k - 1) + Results[k].contribution_1month.v

\* C16: calculate_portfolio_satid_scores returns, per horizon, the sum over the
\* instruments analysed of that horizon's score times the allocation weight (0
\* without an allocation); each recorded contribution is score times weight,
\* the contributions sum to the totals returned, and the scores of the
\* instruments are left as they were.
C16_PortfolioIsWeightedSum ==
    [][/\ pc' = "scored" =>
            /\ risk'.returned = Some(<<Fin(WeightedWeek(Len(Results))'),
                                       Fin(WeightedMonth(Len(Results))')>>)
            /\ risk'.returned = Some(<<Fin(ContributedWeek(Len(Results))'),
                                       Fin(ContributedMonth(Len(Results))')>>)
            /\ \A k \in 1..Len(Results) :
                /\ Results[k].allocation = WeightOf(k)
                /\ Results[k].contribution_1week.v
                     = Results[k].satid_score_1week.v * WeightOf(k)
                /\ Results[k].contribution_1month.v
                     = Results[k].satid_score_1month.v * WeightOf(k)
       /\ pc = "portfolio" =>
            /\ Len(Results') = Len(Results)
            /\ \A k \in 1..Len(Results) :
                /\ Results'[k].satid_score_1week = Results[k].satid_score_1week
                /\ Results'[k].satid_score_1month = Results[k].satid_score_1month
                /\ Results'[k].ticker = Results[k].ticker]_vars

\* the portfolio of three instruments has been scored: one of them has no
\* allocation, two have different weights, and the two totals differ
C16_Witness ==
    /\ pc = "scored"
    /\ Len(Results) = 3
    /\ \E k \in 1..3 : Results[k].ticker \notin DOMAIN risk.allocations
    /\ \E k, l \in 1..3 : WeightOf(k) > WeightOf(l) /\ WeightOf(l) > 0
    /\ risk.returned[1][1] # risk.returned[1][2]
    /\ risk.returned[1][1].v > 0

---------------------------------------------------------------------------
(* Properties of the scripts *)

\* C18: the persisted parameter record is written only by the optimization
\* script: a run of a downstream consumer, and every step of a run of the
\* prices_update_only pipeline, whether it succeeds or fails, leaves the
\* record exactly as it was.
C18_OnlyTheOptimizerWritesParams ==
    [][pipe'.ran # Optimizer => params_file' = params_file]_vars

\* a run of the pipeline has failed at its third script, after the chart
\* generator and the consumers before it read the record an optimization left
C18_Witness ==
    /\ pc = "shell"
    /\ pipe.exit = Some(1)
    /\ pipe.results = <<TRUE, TRUE, FALSE>>
    /\ pipe.ran = Exposure
    /\ params_file # None
    /\ "Support_Levels_Interactive.html" \in outputs

---------------------------------------------------------------------------
(* Properties of the batch as a function of each instrument's own data *)

\* the trend start of a series, from the series alone
TrendStartOf(bars) ==
    LET swing_highs == find_swing_highs(bars, SwingWindow)
        lower_highs == identify_lower_highs(swing_highs, MinHighs)
        line == create_downtrend_line(lower_highs)
        breakout == detect_breakout(bars, line, lower_highs[Len(lower_highs)].date)
        IsBefore(l) == l.date < breakout[1].date
        lows == SelectSeq(find_swing_lows(bars, SwingWindow), IsBefore)
        confirmation == confirm_higher_low(bars, breakout, lows[Len(lows)], WeeksToWait)
    IN  IF Len(swing_highs) < 2 \/ Len(lower_highs) < 2 THEN IdxMinClose(bars)
        ELSE IF line = None \/ breakout = None THEN IdxMinClose(bars)
        ELSE IF lows = << >> THEN breakout[1].date
        ELSE IF confirmation # None /\ confirmation[1].confirmed THEN confirmation[1].date
        ELSE breakout[1].date

\* the score of candidate (p, s) of a series over its window
ScoreOf(bars, window, p, s) ==
    LET ema == _calculate_ema(bars, p)
        Level(k) == FbisLevel(ema[window[k]], s)
        tests == {k \in 1..Len(window) :
                     IsSupportTest(bars[window[k]].low, bars[window[k]].close, Level(k))}
        breaches == {k \in 1..Len(window) :
                        IsBreach(bars[window[k]].low, bars[window[k]].close, Level(k))}
    IN  Cardinality(tests) - 3 * Cardinality(breaches)

\* the parameters of an instrument, from its ticker and its own columns alone:
\* the default without the three columns, under 52 bars or under 10 bars of
\* window, else the first candidate of its profile with the highest score
ParamsOf(ticker, data) ==
    IF data.cols # {"close", "high", "low"} \/ Len(data.bars) < 52 THEN DefaultParams
    ELSE LET window == OptMask(data.bars, TrendStartOf(data.bars))
             profile == ConstraintsOf(AssetClassOf(ticker))
             grid == Range(profile.ema_range) \X Range(profile.shift_range)
             score == [c \in grid |-> ScoreOf(data.bars, window, c[1], c[2])]
             Precedes(c, d) == c[1] < d[1] \/ (c[1] = d[1] /\ c[2] < d[2])
             best == CHOOSE c \in grid :
                        /\ \A d \in grid : score[d] <= score[c]
                        /\ \A d \in grid : score[d] = score[c] => ~ Precedes(d, c)
         IN  IF Len(window) < 10 THEN DefaultParams
             ELSE [period |-> best[1], shift |-> best[2]]

\* C19: the parameters produced for an instrument depend only on its ticker
\* and its own close, high and low series: whatever the order of the ticker
\* list and whatever the data of the other instrument, the entry returned for
\* it is the same function of its own data.
C19_ParamsDependOnOwnDataOnly ==
    pc \in {"done", "saved", "exit"} =>
        /\ DOMAIN params = Range(tickers)
        /\ \A t \in DOMAIN params : params[t] = ParamsOf(t, df[t])

\* the batch has optimized both instruments, the second of the list after the
\* first, and has found them different parameters
C19_Witness ==
    /\ pc = "done"
    /\ \A t \in Range(tickers) :
        /\ ~ ColumnsMissing(t)
        /\ ~ HistoryTooShort(Len(df[t].bars))
        /\ Len(OptMask(df[t].bars, TrendStartOf(df[t].bars))) >= 10
    /\ params[tickers[1]] # params[tickers[2]]
    /\ params[tickers[1]] # DefaultParams

---------------------------------------------------------------------------
(* Properties of find_swing_highs and find_swing_lows *)

SwingWindows == {1, 2, SwingWindow}

\* the positions, counted from 0, that the claim names for window w: w <= i < n - w
\* with the value at i the maximum of the values at i - w .. i + w
MaximumPositions(values, w) ==
    {i \in 0..(Len(values) - 1) :
        /\ w <= i
        /\ i < Len(values) - w
        /\ \A j \in (i - w)..(i + w) : values[j + 1] <= values[i + 1]}

\* the same with the minimum
MinimumPositions(values, w) ==
    {i \in 0..(Len(values) - 1) :
        /\ w <= i
        /\ i < Len(values) - w
        /\ \A j \in (i - w)..(i + w) : values[i + 1] <= values[j + 1]}

\* found lists exactly the bars at the positions of at, once each, in
\* chronological order, each with its date and its value
ListsExactly(found, bars, values, at) ==
    /\ Len(found) = Cardinality(at)
    /\ \A k \in 1..Len(found) :
        \E i \in at : found[k] = [date |-> bars[i + 1].date, price |-> values[i + 1]]
    /\ \A k \in 1..(Len(found) - 1) : found[k].date < found[k + 1].date

SwingHighsExact(found, bars, w) ==
    ListsExactly(found, bars, Highs(bars), MaximumPositions(Highs(bars), w))

SwingLowsExact(found, bars, w) ==
    ListsExactly(found, bars, Lows(bars), MinimumPositions(Lows(bars), w))

\* C20: for a series of n bars and window w, find_swing_highs returns exactly
\* the positions i with w <= i < n - w whose high equals the maximum of the
\* highs at i - w .. i + w, and find_swing_lows those whose low equals the
\* minimum of the lows there, in chronological order; a series of fewer than
\* 2w + 1 bars gives an empty list.
C20_SwingPointsAreWindowExtremes ==
    /\ \A w \in SwingWindows :
        /\ SwingHighsExact(find_swing_highs(Bars, w), Bars, w)
        /\ SwingLowsExact(find_swing_lows(Bars, w), Bars, w)
        /\ Len(Bars) < 2 * w + 1 =>
              find_swing_highs(Bars, w) = << >> /\ find_swing_lows(Bars, w) = << >>
    /\ pc # "detect" => SwingHighsExact(det.swing_highs, Bars, SwingWindow)
    /\ pc \in {"confirm", "constructed"} /\ det.breakout # None =>
          SwingLowsExact(det.swing_lows, Bars, SwingWindow)

\* the detection has found several swing highs, two of them bars of one
\* window with the same high, and at least one swing low
C20_Witness ==
    /\ pc = "confirm"
    /\ Len(det.swing_highs) >= 3
    /\ det.swing_lows # << >>
    /\ \E k \in 1..(Len(det.swing_highs) - 1) :
        /\ det.swing_highs[k].price = det.swing_highs[k + 1].price
        /\ det.swing_highs[k + 1].date - det.swing_highs[k].date <= SwingWindow * DaysPerWeek

---------------------------------------------------------------------------
(* Properties of identify_lower_highs, detect_breakout, confirm_higher_low *)

\* the swing highs at positions s .. s + n - 1 have strictly decreasing prices
IsLowerRun(swing_highs, s, n) ==
    /\ 1 <= s
    /\ s + n - 1 <= Len(swing_highs)
    /\ \A k \in s..(s + n - 2) : swing_highs[k + 1].price < swing_highs[k].price

\* C21: identify_lower_highs returns the empty sequence or a run of at least
\* 2 consecutive swing highs with strictly decreasing prices, of maximal
\* length among such runs and the earliest-starting of that length; equal
\* consecutive highs end a run.
C21_LongestEarliestLowerRun ==
    pc \notin {"detect", "lower_highs"} /\ Len(det.swing_highs) >= 2 =>
        LET swing_highs == det.swing_highs
            found == det.lower_highs
            n == Len(found)
        IN  \/ found = << >>
            \/ /\ n >= MinHighs
               /\ \E s \in 1..Len(swing_highs) :
                    /\ IsLowerRun(swing_highs, s, n)
                    /\ found = SubSeq(swing_highs, s, s + n - 1)
                    /\ \A t \in 1..(s - 1) : ~ IsLowerRun(swing_highs, t, n)
               /\ \A t \in 1..Len(swing_highs) : ~ IsLowerRun(swing_highs, t, n + 1)
               /\ \A k \in 1..(n - 1) : found[k + 1].price # found[k].price

\* a run has been returned although a later run is as long, and two
\* consecutive swing highs of the input have the same price
C21_Witness ==
    /\ pc = "breakout"
    /\ Len(det.lower_highs) >= 2
    /\ \E t \in 1..Len(det.swing_highs) :
        /\ IsLowerRun(det.swing_highs, t, Len(det.lower_highs))
        /\ det.swing_highs[t].date > det.lower_highs[1].date
    /\ \E k \in 1..(Len(det.swing_highs) - 1) :
        det.swing_highs[k + 1].price = det.swing_highs[k].price


\* the downtrend line of the lower highs found, and the date of its last anchor
LineFound == create_downtrend_line(det.lower_highs)[1]
LastAnchorFound == det.lower_highs[Len(det.lower_highs)].date

\* the bar at position i closes above the line at its date
ClosesAboveLine(i) == AboveLine(Bars[i].close, LineFound, Bars[i].date)

\* detect_breakout has been called on a line
BreakoutSought == pc \notin {"detect", "lower_highs", "breakout"} /\ Len(det.lower_highs) >= 2

\* C22: detect_breakout returns the earliest bar dated strictly after the last
\* anchor of the line whose close is strictly above the line at its date: the
\* bars between the last anchor and it close at or below the line, no bar at
\* or before the last anchor is returned, and without such a bar the result
\* is no breakout.
C22_BreakoutIsFirstCloseAboveLine ==
    BreakoutSought =>
        IF det.breakout = None
        THEN \A i \in 1..Len(Bars) : Bars[i].date > LastAnchorFound => ~ ClosesAboveLine(i)
        ELSE /\ det.breakout[1].date > LastAnchorFound
             /\ \E i \in 1..Len(Bars) :
                  /\ det.breakout[1] = [date |-> Bars[i].date, price |-> Bars[i].close]
                  /\ ClosesAboveLine(i)
                  /\ \A j \in 1..(i - 1) :
                        Bars[j].date > LastAnchorFound => ~ ClosesAboveLine(j)

\* a breakout has been found several bars after the last anchor, and a bar at
\* or before the last anchor closes above the line
C22_Witness ==
    /\ BreakoutSought
    /\ det.breakout # None
    /\ det.breakout[1].date > LastAnchorFound + DaysPerWeek
    /\ \E i \in 1..Len(Bars) : Bars[i].date <= LastAnchorFound /\ ClosesAboveLine(i)


\* detect_trend_change has returned a confirmation
ConfirmationEmitted == pc = "constructed" /\ "confirmation" \in DOMAIN Info

\* the positions of the bars dated in (breakout date, breakout date + 12 weeks]
BarsAfterBreakout ==
    {i \in 1..Len(Bars) :
        /\ Bars[i].date > det.breakout[1].date
        /\ Bars[i].date <= det.breakout[1].date + WeeksToWait * DaysPerWeek}

\* the swing lows of the series dated strictly before the breakout
LowsBeforeBreakout ==
    {l \in Range(find_swing_lows(Bars, SwingWindow)) : l.date < det.breakout[1].date}

\* the most recent of them
LastLowBeforeBreakout ==
    CHOOSE l \in LowsBeforeBreakout : \A m \in LowsBeforeBreakout : m.date <= l.date

\* C23: a confirmation is emitted exactly when a breakout exists, a swing low
\* is dated strictly before it, a bar lies within 12 weeks after it and the
\* lowest low of those bars is strictly above the price of the most recent
\* swing low before the breakout; the confirmation is dated at that lowest
\* low, strictly after the breakout and at most 12 weeks after it.
C23_ConfirmationExactlyOnHigherLow ==
    pc = "constructed" =>
        /\ ConfirmationEmitted <=>
              /\ Len(det.swing_highs) >= 2
              /\ Len(det.lower_highs) >= 2
              /\ det.breakout # None
              /\ LowsBeforeBreakout # {}
              /\ BarsAfterBreakout # {}
              /\ \A i \in BarsAfterBreakout : Bars[i].low > LastLowBeforeBreakout.price
        /\ ConfirmationEmitted =>
              /\ Info["confirmation"].date > det.breakout[1].date
              /\ Info["confirmation"].date <= det.breakout[1].date + WeeksToWait * DaysPerWeek
              /\ \E i \in BarsAfterBreakout :
                    /\ Bars[i].date = Info["confirmation"].date
                    /\ \A j \in BarsAfterBreakout : Bars[i].low <= Bars[j].low
                    /\ \A j \in BarsAfterBreakout : j < i => Bars[i].low < Bars[j].low

\* a confirmation has been emitted with several swing lows before the
\* breakout, the bar of the breakout itself having a low under every low of
\* the window
C23_Witness ==
    /\ ConfirmationEmitted
    /\ Cardinality(LowsBeforeBreakout) >= 2
    /\ \E i \in 1..Len(Bars) :
        /\ Bars[i].date = det.breakout[1].date
        /\ \A j \in BarsAfterBreakout : Bars[i].low < Bars[j].low


\* the script files of SCRIPTS of the pipeline that is running or has run
FilesOfSCRIPTS == [j \in 1..Len(ScriptsOf(pipe.main)) |-> ScriptsOf(pipe.main)[j].file]

\* a script of the run has been judged failed
SomeScriptFailed == \E j \in 1..Len(pipe.results) : ~ pipe.results[j]

\* C24: the main of FULL_Optimization and of prices_update_only starts the
\* scripts of SCRIPTS strictly in list order, one at a time; once a script is
\* judged failed no later script is started; and the process exits with 0 if
\* and only if every script of SCRIPTS was run and judged successful,
\* otherwise with 1.
C24_PipelineInOrderAndStopsOnFailure ==
    /\ [](pipe.main # "" =>
            /\ Len(pipe.started) <= Len(FilesOfSCRIPTS)
            /\ pipe.started = SubSeq(FilesOfSCRIPTS, 1, Len(pipe.started))
            /\ pipe.exit # None =>
                  /\ pipe.exit[1] \in {0, 1}
                  /\ pipe.exit[1] = 0 <=>
                        /\ pipe.started = FilesOfSCRIPTS
                        /\ Len(pipe.results) = Len(FilesOfSCRIPTS)
                        /\ ~ SomeScriptFailed)
    /\ [][pc = "pipeline" /\ SomeScriptFailed => pipe'.started = pipe.started]_vars
    /\ [][pc = "pipeline" /\ pipe'.started # pipe.started =>
            /\ Len(pipe'.started) = Len(pipe.started) + 1
            /\ pipe'.ran = FilesOfSCRIPTS[Len(pipe.started) + 1]]_vars

\* the full optimization has exited with 1 after its fourth script, started
\* after three successes, was judged failed
C24_Witness ==
    /\ pipe.main = FullPipeline
    /\ pipe.exit = Some(1)
    /\ pipe.results = <<TRUE, TRUE, TRUE, FALSE>>
    /\ pipe.started = <<Download, Optimizer, Exposure, RiskScore>>


\* the step of the pipeline that has just ended, and the output expected of it
LastStep == ScriptsOf(pipe.main)[Len(pipe.results)]
StepRecorded == pipe.main # "" /\ pipe.results # << >> /\ pipe.ran = LastStep.file

\* C25: in the FULL_Optimization pipeline, when the optimization script hits
\* an exception inside its main, the step is recorded as failed and no report
\* script after it is started in that run; a step is recorded as successful
\* only if the script produced its expected output during that run.
C25_FailedOptimizationStopsThePipeline ==
    /\ [](StepRecorded /\ pipe.main = FullPipeline /\ pipe.ran = Optimizer /\ pipe.raised =>
            ~ pipe.results[Len(pipe.results)])
    /\ [][/\ pc = "pipeline"
          /\ pipe.main = FullPipeline
          /\ pipe.ran = Optimizer
          /\ pipe.raised
          => pipe'.started = pipe.started]_vars
    /\ [](StepRecorded /\ pipe.main = FullPipeline /\ pipe.results[Len(pipe.results)] =>
            LastStep.output \in pipe.written)

---------------------------------------------------------------------------
(* Properties across the optimizer and the scoring layer *)

\* the last value of the support line the optimizer scores for a candidate:
\* the EMA of the whole close series after dropna(), restricted to the
\* evaluation window, times (1 + shift)
LastOfFbisLine(bars, period, shift) ==
    FbisLevel(_calculate_ema(bars, period)[Len(bars)], shift)

\* the batch has returned its parameters
BatchReturned == pc \in {"done", "saved", "exit"}

C27_ConsumersShareTheOptimizerDefault ==
    risk.analysed # << >> =>
        /\ \A t \in RiskTickers \ DOMAIN risk.fbis_params : \A c \in ParameterConsumers :
              ParamsUsed(c, risk.fbis_params, t) = DefaultParams
        /\ \A k \in 1..Len(risk.etf_results) :
              LET res == risk.etf_results[k]
                  prices == risk.prices[res.ticker]
              IN  res.ticker \notin DOMAIN risk.fbis_params =>
                    res.fbis = FbisLevel(calculate_ema(prices, DefaultPeriod)[Len(prices)],
                                         DefaultShift)


\* the candidates of the asset class resolved for an instrument
GridOfClass(ticker) ==
    {[period |-> p, shift |-> s] :
        p \in Range(CONSTRAINTS[AssetClassOf(ticker)].ema_range),
        s \in Range(CONSTRAINTS[AssetClassOf(ticker)].shift_range)}

\* C28: every (period, shift) that optimize_all_etfs stores for an instrument
\* is a member of ema_range x shift_range of the asset class resolved for it
\* or the fixed default (20, -0.05); a pair of another class's ranges is
\* never stored.
C28_StoredPairWithinClassRanges ==
    \A t \in DOMAIN params : params[t] = DefaultParams \/ params[t] \in GridOfClass(t)

\* the batch has stored, for the bond instrument, a pair that the ranges of
\* the default class do not hold, and for the unmapped instrument a pair that
\* the bond ranges do not hold
C28_Witness ==
    /\ BatchReturned
    /\ params["BIL"] \in GridOfClass("BIL") \ GridOfClass("NEW")
    /\ params["NEW"] \in GridOfClass("NEW") \ GridOfClass("BIL")
    /\ params["NEW"] # DefaultParams

---------------------------------------------------------------------------
(* Properties of main of generate_Fbis_Levels_Interactive.py *)

\* C29: when loading the dataset or optimize_all_etfs raises, main does not
\* write the parameter file: the record persisted before is left unchanged
\* and no partial record is written; the record is written only after every
\* instrument of the batch has been processed.
C29_NoRecordWithoutACompleteBatch ==
    /\ [][pc' = "failed" => params_file' = params_file /\ pc \notin {"saved", "exit"}]_vars
    /\ [][params_file' # params_file =>
            /\ idx = Len(tickers)
            /\ DOMAIN params = Range(tickers)
            /\ params_file' = Some(JsonDump(params))]_vars
    /\ [](pc = "failed" => params_file \in EarlierRecords)

\* the batch has raised on its second instrument, the first one stored, and
\* the record of the earlier run is still in the file
C29_Witness ==
    /\ pc = "failed"
    /\ idx = 1
    /\ DOMAIN params = {tickers[1]}
    /\ params[tickers[1]] # DefaultParams
    /\ params_file = Some([t \in BatchTickers |-> DefaultParams])

---------------------------------------------------------------------------
(* Monotonicity of the score *)

\* C30: with the same distance to support and the same positive weekly
\* volatility, the 1-month score of analyze_etf_risk is at least its 1-week
\* score; and for a fixed volatility and horizon the score never increases
\* when the distance to support increases.
C30_ScoreMonotoneInHorizonAndDistance ==
    /\ \A k \in 1..Len(Results) :
        (Results[k].volatility_weekly.kind = "fin" /\ Results[k].volatility_weekly.v > 0) =>
            Results[k].satid_score_1month.v >= Results[k].satid_score_1week.v
    /\ Called =>
        \A d \in Distances :
            d >= Call.distance_pct =>
                calculate_satid_score_linear(d, Call.volatility_weekly, Call.horizon_weeks).v
                    <= Call.score.v

\* an instrument above its support has been analysed with a positive
\* volatility, and its 1-month score is strictly above its 1-week score
C30_Witness ==
    \E k \in 1..Len(Results) :
        /\ Results[k].distance_pct > 0
        /\ Results[k].volatility_weekly.kind = "fin"
        /\ Results[k].volatility_weekly.v > 0
        /\ Results[k].satid_score_1week.v > 0
        /\ Results[k].satid_score_1month.v > Results[k].satid_score_1week.v
        /\ Results[k].satid_score_1month.v < MaxScore * RiskScale

=============================================================================
